---- MODULE Spec2Model ----
(***************************************************************************)
(* Model of the SpurStore chat backend: the POST /message and GET /history *)
(* handlers (routes/chat.ts), the SQLite conversation store                *)
(* (services/conversationService.ts, db/database.ts), the Redis response   *)
(* cache and the LLM service (services/cacheService.ts, which also holds   *)
(* the text of llmService.ts) and the error middleware.                    *)
(*                                                                         *)
(* Node runs one handler at a time between awaits and better-sqlite3 is    *)
(* synchronous, so a handler is atomic up to its next await.  The only     *)
(* await of POST /message that the route reaches is the provider call.     *)
(***************************************************************************)
EXTENDS Integers, Sequences, FiniteSets, TLC

(***************************************************************************)
(* Bounds of the model.                                                    *)
(***************************************************************************)
\* number of POST /message requests issued in a behaviour
MaxReqs == 2
\* the clock (Math.floor(Date.now() / 1000)) runs over 0..MaxTime
MaxTime == 1
\* the clock of the browser (Date.now(), milliseconds) runs over 0..MaxMs
MaxMs == 1

(***************************************************************************)
(* Program constants.                                                      *)
(***************************************************************************)
\* z.string().min(1)
MinMessageLen == 1
\* z.string().max(5000)
MaxMessageLen == 5000
\* CacheService.TTL
TTL == 3600
\* LLMService.maxHistoryMessages
maxHistoryMessages == 10

\* null / undefined, and a present value: a sequence of at most one element
Null == <<>>
Some(x) == <<x>>
\* the module variable redisClient before a connect succeeded
NoClient == "null"

(***************************************************************************)
(* Strings.  A string is kept run-length encoded: a sequence of runs       *)
(* [c |-> character, n |-> repetitions], adjacent runs holding different   *)
(* characters.  The alphabet has an upper-case letter, its lower-case      *)
(* form, another lower-case letter and the space.                          *)
(***************************************************************************)
Run(c, n) == [c |-> c, n |-> n]

RECURSIVE strlen(_)
strlen(s) == IF s = <<>> THEN 0 ELSE Head(s).n + strlen(Tail(s))

IsSpace(c) == c = " "

LowerChar(c) == IF c = "R" THEN "r" ELSE c

\* append a run to a canonical string, merging it into an equal last run
AppendRun(s, r) ==
    IF s # <<>> /\ s[Len(s)].c = r.c
    THEN [s EXCEPT ![Len(s)] = Run(r.c, s[Len(s)].n + r.n)]
    ELSE Append(s, r)

RECURSIVE LowerFrom(_, _)
LowerFrom(acc, s) ==
    IF s = <<>> THEN acc
    ELSE LowerFrom(AppendRun(acc, Run(LowerChar(Head(s).c), Head(s).n)), Tail(s))

\* String.prototype.toLowerCase
toLowerCase(s) == LowerFrom(<<>>, s)

RECURSIVE trimStart(_)
trimStart(s) ==
    IF s # <<>> /\ IsSpace(Head(s).c) THEN trimStart(Tail(s)) ELSE s

RECURSIVE trimEnd(_)
trimEnd(s) ==
    IF s # <<>> /\ IsSpace(s[Len(s)].c) THEN trimEnd(SubSeq(s, 1, Len(s) - 1)) ELSE s

\* String.prototype.trim
trim(s) == trimEnd(trimStart(s))

\* the set of elements of a sequence
Range(s) == {s[i] : i \in 1..Len(s)}

(***************************************************************************)
(* The store: conversations is the conversations table (a function from    *)
(* the ids present to their row), messages the messages table in rowid     *)
(* (insertion) order.                                                      *)
(***************************************************************************)
ConversationRow(id, createdAt, updatedAt) ==
    [id |-> id, createdAt |-> createdAt, updatedAt |-> updatedAt]

MessageRow(id, conversationId, sender, text, timestamp) ==
    [id |-> id, conversationId |-> conversationId, sender |-> sender,
     text |-> text, timestamp |-> timestamp]

\* ConversationService.createConversation: INSERT INTO conversations
createConversation(convs, id, t) ==
    [c \in DOMAIN convs \cup {id} |->
        IF c = id THEN ConversationRow(id, t, t) ELSE convs[c]]

\* ConversationService.getConversation: the row or null
getConversation(convs, conversationId) ==
    IF conversationId \in DOMAIN convs THEN Some(convs[conversationId]) ELSE Null

\* INSERT INTO messages
\* as insertMessage, but a row replaces the row that the same sender wrote
\* to the same conversation at the same time (INSERT OR REPLACE on such a key)
insertOrReplaceMessage(msgs, row) ==
    Append(SelectSeq(msgs, LAMBDA m : ~(/\ m.conversationId = row.conversationId
                                        /\ m.sender = row.sender
                                        /\ m.timestamp = row.timestamp)),
           row)

insertMessage(msgs, row) == Append(msgs, row)

\* as updateConversation, but writing the wrong column
updateConversationCreatedAt(convs, conversationId, timestamp) ==
    [convs EXCEPT ![conversationId].createdAt = timestamp]

\* as updateConversation, without the WHERE clause
updateEveryConversation(convs, conversationId, timestamp) ==
    [c \in DOMAIN convs |-> [convs[c] EXCEPT !.updatedAt = timestamp]]

\* UPDATE conversations SET updated_at = ? WHERE id = ?
updateConversation(convs, conversationId, timestamp) ==
    [convs EXCEPT ![conversationId].updatedAt = timestamp]

\* as addMessage, without the lookup of the conversation
addMessageUnchecked(convs, msgs, id, conversationId, sender, text, t, fault) ==
    [ok |-> TRUE, error |-> <<>>,
     conversations |-> IF conversationId \in DOMAIN convs
                       THEN updateConversation(convs, conversationId, t) ELSE convs,
     messages |-> insertMessage(msgs, MessageRow(id, conversationId, sender, text, t))]

\* ConversationService.addMessage.  fault names the statement on which the
\* storage engine raises an error ("none", "insert" or "update"); the two
\* writes are separate autocommit statements, there is no transaction.
addMessage(convs, msgs, id, conversationId, sender, text, t, fault) ==
    IF getConversation(convs, conversationId) = Null
    THEN [ok |-> FALSE, error |-> <<"Conversation not found">>,
          conversations |-> convs, messages |-> msgs]
    ELSE IF fault = "insert"
    THEN [ok |-> FALSE, error |-> <<"SqliteError">>,
          conversations |-> convs, messages |-> msgs]
    ELSE IF fault = "update"
    THEN [ok |-> FALSE, error |-> <<"SqliteError">>,
          conversations |-> convs,
          messages |-> insertMessage(msgs, MessageRow(id, conversationId, sender, text, t))]
    ELSE [ok |-> TRUE, error |-> <<>>,
          conversations |-> updateConversation(convs, conversationId, t),
          messages |-> insertMessage(msgs, MessageRow(id, conversationId, sender, text, t))]

\* as InsertByTimestamp, but a row goes before the rows of its timestamp
RECURSIVE InsertByTimestampTiesFirst(_, _)
InsertByTimestampTiesFirst(sorted, row) ==
    IF sorted = <<>> THEN <<row>>
    ELSE IF row.timestamp <= Head(sorted).timestamp THEN <<row>> \o sorted
    ELSE <<Head(sorted)>> \o InsertByTimestampTiesFirst(Tail(sorted), row)

\* insert a row into a list sorted by timestamp, after the rows of the same
\* timestamp (rows of equal timestamp come out in rowid order)
RECURSIVE InsertByTimestamp(_, _)
InsertByTimestamp(sorted, row) ==
    IF sorted = <<>> THEN <<row>>
    ELSE IF row.timestamp < Head(sorted).timestamp THEN <<row>> \o sorted
    ELSE <<Head(sorted)>> \o InsertByTimestamp(Tail(sorted), row)

RECURSIVE OrderByTimestamp(_, _)
OrderByTimestamp(acc, rows) ==
    IF rows = <<>> THEN acc
    ELSE OrderByTimestamp(InsertByTimestamp(acc, Head(rows)), Tail(rows))

\* as getMessages, newest row first
getMessagesNewestFirst(msgs, conversationId) ==
    LET rows == OrderByTimestamp(<<>>, SelectSeq(msgs, LAMBDA m : m.conversationId = conversationId))
    IN  [i \in 1..Len(rows) |-> rows[Len(rows) + 1 - i]]

\* ConversationService.getMessages: WHERE conversation_id = ? ORDER BY timestamp ASC
getMessages(msgs, conversationId) ==
    OrderByTimestamp(<<>>, SelectSeq(msgs, LAMBDA m : m.conversationId = conversationId))

(***************************************************************************)
(* The response cache (CacheService) over Redis.  redisClient is the       *)
(* module-level client (Null until a connect succeeded), cache the         *)
(* content of the Redis server: key -> [value, expiresAt].                 *)
(***************************************************************************)
\* crypto.createHash("sha256").update(normalized).digest("hex"): a
\* collision-resistant hash, one digest per input
sha256(s) == <<"sha256", s>>

\* as getCacheKey, hashing the message as given
getCacheKeyRaw(userMessage) == <<"chat:", sha256(userMessage)>>

\* CacheService.getCacheKey
getCacheKey(userMessage) == <<"chat:", sha256(trim(toLowerCase(userMessage)))>>

\* getRedisClient: the existing client, else a new connected one when Redis
\* is configured and the connect succeeds, else null
getRedisClient(client, configured, connectOk) ==
    IF client # NoClient THEN client
    ELSE IF ~configured THEN NoClient
    ELSE IF connectOk THEN "client" ELSE NoClient

\* client.get(key): the stored value, null when absent or expired
redisGet(store, key, t) ==
    IF key \in DOMAIN store /\ t < store[key].expiresAt THEN Some(store[key].value) ELSE Null

\* client.setEx(key, ttl, value)
redisSetEx(store, key, ttl, value, t) ==
    [k \in DOMAIN store \cup {key} |->
        IF k = key THEN [value |-> value, expiresAt |-> t + ttl] ELSE store[k]]

\* the try block of CacheService.get.  client is what getRedisClient
\* returned; redisOk tells whether the server answers the command, and the
\* command throws when it does not
cacheGetTry(client, store, userMessage, t, redisOk) ==
    IF client = NoClient THEN [threw |-> FALSE, value |-> Null]
    ELSE IF ~redisOk THEN [threw |-> TRUE, value |-> Null]
    ELSE [threw |-> FALSE, value |-> redisGet(store, getCacheKey(userMessage), t)]

\* as cacheGet, without the catch
cacheGetUncaught(client, store, userMessage, t, redisOk) ==
    cacheGetTry(client, store, userMessage, t, redisOk)

\* CacheService.get: the catch turns a throw into null
cacheGet(client, store, userMessage, t, redisOk) ==
    LET got == cacheGetTry(client, store, userMessage, t, redisOk)
    IN  IF got.threw THEN [threw |-> FALSE, value |-> Null] ELSE got

\* as cacheSet, with a time to live of 0
cacheSetNoTtl(client, store, userMessage, reply, t, redisOk) ==
    IF client = NoClient \/ ~redisOk THEN [threw |-> FALSE, store |-> store]
    ELSE [threw |-> FALSE,
          store |-> redisSetEx(store, getCacheKey(userMessage), 0, reply, t)]

\* the try block of CacheService.set
cacheSetTry(client, store, userMessage, reply, t, redisOk) ==
    IF client = NoClient THEN [threw |-> FALSE, store |-> store]
    ELSE IF ~redisOk THEN [threw |-> TRUE, store |-> store]
    ELSE [threw |-> FALSE,
          store |-> redisSetEx(store, getCacheKey(userMessage), TTL, reply, t)]

\* CacheService.set: the catch swallows a throw
cacheSet(client, store, userMessage, reply, t, redisOk) ==
    LET set == cacheSetTry(client, store, userMessage, reply, t, redisOk)
    IN  IF set.threw THEN [threw |-> FALSE, store |-> store] ELSE set

(***************************************************************************)
(* The LLM service.                                                        *)
(***************************************************************************)
Providers == {"openai", "groq", "gemini"}

\* the provider name handed to handleError by each generateWith* method
ProviderName(provider) ==
    CASE provider = "groq" -> "Groq"
      [] provider = "gemini" -> "Gemini"
      [] OTHER -> "OpenAI"

STORE_KNOWLEDGE == <<Run("STORE_KNOWLEDGE", 1)>>

\* as sliceLast, keeping the first n elements
sliceFirst(s, n) == IF Len(s) <= n THEN s ELSE SubSeq(s, 1, n)

\* Array.prototype.slice(-n)
sliceLast(s, n) == IF Len(s) <= n THEN s ELSE SubSeq(s, Len(s) - n + 1, Len(s))

PromptEntry(role, content) == [role |-> role, content |-> content]

\* the messages array of generateWithOpenAI and generateWithGroq: the system
\* instruction, the recent history, the new user message
chatMessages(userMessage, conversationHistory) ==
    LET recentHistory == sliceLast(conversationHistory, maxHistoryMessages)
    IN  <<PromptEntry("system", STORE_KNOWLEDGE)>>
        \o [i \in 1..Len(recentHistory) |->
              PromptEntry(IF recentHistory[i].sender = "user" THEN "user" ELSE "assistant",
                          recentHistory[i].text)]
        \o <<PromptEntry("user", userMessage)>>

\* the conversationContext of generateWithGemini, one entry per line
geminiContext(userMessage, conversationHistory) ==
    LET recentHistory == sliceLast(conversationHistory, maxHistoryMessages)
    IN  <<PromptEntry("system", STORE_KNOWLEDGE)>>
        \o [i \in 1..Len(recentHistory) |->
              PromptEntry(IF recentHistory[i].sender = "user" THEN "Customer" ELSE "Agent",
                          recentHistory[i].text)]
        \o <<PromptEntry("Customer", userMessage)>>

\* the prompt the selected generateWith* method sends to its backend
buildPrompt(provider, userMessage, conversationHistory) ==
    IF provider = "gemini"
    THEN geminiContext(userMessage, conversationHistory)
    ELSE chatMessages(userMessage, conversationHistory)

\* a failure raised by the backend client: error.status and
\* error.response.status (0 when the error has none), error.code and the
\* words of error.message
BackendError(status, responseStatus, code, message) ==
    [status |-> status, responseStatus |-> responseStatus, code |-> code,
     message |-> message]

\* error?.status || error?.response?.status
errorStatus(error) == IF error.status # 0 THEN error.status ELSE error.responseStatus

\* as handleError, with the timeout test ahead of the status tests
handleErrorTimeoutFirst(error, provider) ==
    IF error.code = "ECONNABORTED" \/ "timeout" \in Range(error.message)
    THEN <<"Request to ", provider, " timed out. Please try again.">>
    ELSE IF errorStatus(error) = 401
    THEN <<"Invalid ", provider, " API key. Please check your API key.">>
    ELSE IF errorStatus(error) = 429
    THEN <<provider, " rate limit exceeded. Please wait a moment and try again.">>
    ELSE IF errorStatus(error) = 503
    THEN <<provider, " service temporarily unavailable. Please try again in a moment.">>
    ELSE <<"Failed to generate reply with ", provider, ": ">>
         \o (IF error.message = <<>> THEN <<"Unknown error">> ELSE error.message)

\* as handleError, without the branch for status 429
handleErrorNo429(error, provider) ==
    IF errorStatus(error) = 401
    THEN <<"Invalid ", provider, " API key. Please check your API key.">>
    ELSE IF errorStatus(error) = 503
    THEN <<provider, " service temporarily unavailable. Please try again in a moment.">>
    ELSE IF error.code = "ECONNABORTED" \/ "timeout" \in Range(error.message)
    THEN <<"Request to ", provider, " timed out. Please try again.">>
    ELSE <<"Failed to generate reply with ", provider, ": ">>
         \o (IF error.message = <<>> THEN <<"Unknown error">> ELSE error.message)

\* LLMService.handleError: the message of the error it throws
handleError(error, provider) ==
    IF errorStatus(error) = 401
    THEN <<"Invalid ", provider, " API key. Please check your API key.">>
    ELSE IF errorStatus(error) = 429
    THEN <<provider, " rate limit exceeded. Please wait a moment and try again.">>
    ELSE IF errorStatus(error) = 503
    THEN <<provider, " service temporarily unavailable. Please try again in a moment.">>
    ELSE IF error.code = "ECONNABORTED" \/ "timeout" \in Range(error.message)
    THEN <<"Request to ", provider, " timed out. Please try again.">>
    ELSE <<"Failed to generate reply with ", provider, ": ">>
         \o (IF error.message = <<>> THEN <<"Unknown error">> ELSE error.message)

\* as generateSettle, returning the completion's text as received
generateSettleUntrimmed(provider, outcome) ==
    IF outcome.ok /\ outcome.content # Null /\ outcome.content[1] # <<>>
    THEN [ok |-> TRUE, reply |-> outcome.content[1], error |-> <<>>]
    ELSE [ok |-> FALSE, reply |-> <<>>,
          error |-> handleError(outcome.error, ProviderName(provider))]

\* the settlement of a generateWith* call once the backend answered:
\* outcome is [ok, content, error], content the text of the completion
\* (Null when the completion carries none), error the failure raised
generateSettle(provider, outcome) ==
    IF outcome.ok
    THEN LET reply == IF outcome.content = Null THEN <<>> ELSE trim(outcome.content[1])
         IN  IF reply = <<>>
             THEN [ok |-> FALSE, reply |-> <<>>,
                   error |-> handleError(
                       BackendError(0, 0, "", <<"Empty response from ", ProviderName(provider)>>),
                       ProviderName(provider))]
             ELSE [ok |-> TRUE, reply |-> reply, error |-> <<>>]
    ELSE [ok |-> FALSE, reply |-> <<>>,
          error |-> handleError(outcome.error, ProviderName(provider))]

\* as cacheEligible, with the test inverted
cacheEligibleNonEmpty(conversationHistory) == Len(conversationHistory) # 0

\* generateReply consults and fills the cache only for an empty history
cacheEligible(conversationHistory) == Len(conversationHistory) = 0

\* the credential check at the head of each generateWith* method; key is
\* the credential as a sequence of parts, empty when unset or ""
startsWith(key, prefix) == key # <<>> /\ key[1] = prefix

isBlank(key) == \A i \in 1..Len(key) : key[i] = " "

apiKeyConfigured(provider, key) ==
    CASE provider = "groq" ->
            ~(key = <<>> \/ isBlank(key) \/ key = <<"your_groq_api_key_here">>
              \/ ~startsWith(key, "gsk_"))
      [] provider = "gemini" ->
            ~(key = <<>> \/ key = <<"your_gemini_api_key_here">>)
      [] OTHER ->
            key # <<>> /\ ~isBlank(key) /\ key # <<"your_openai_api_key_here">>
            /\ startsWith(key, "sk-")

\* the message of the configuration error each generateWith* method throws
apiKeyError(provider) ==
    CASE provider = "groq" ->
            <<"Groq API key not configured. Please set a valid ", "GROQ_API_KEY",
              " in backend/.env file. Get free key at ", "https://console.groq.com/keys">>
      [] provider = "gemini" ->
            <<"Gemini API key not configured. Please set ", "GEMINI_API_KEY",
              " in backend/.env file. Get free key at ", "https://aistudio.google.com/app/apikey">>
      [] OTHER ->
            <<"OpenAI API key not configured. Please set a valid ", "OPENAI_API_KEY",
              " in backend/.env file. Get your key at ", "https://platform.openai.com/api-keys">>

(***************************************************************************)
(* The HTTP layer.                                                         *)
(***************************************************************************)
\* values of the sessionId field of a request body
\* the field is absent
NoSessionId == -1
\* a string that is not a UUID
NotAUuid == -2
\* a well-formed UUID that uuidv4 never returned
UnknownUuid == 0

\* z.string().min(1).max(5000)
messageValid(message) ==
    strlen(message) >= MinMessageLen /\ strlen(message) <= MaxMessageLen

\* messageSchema.parse succeeds: the message has a valid length and the
\* sessionId passes z.string().uuid().optional()
schemaValid(message, sessionId) == messageValid(message) /\ sessionId # NotAUuid

\* as needsNewConversation, without the lookup of a supplied sessionId
needsNewConversationOnlyWhenAbsent(convs, sessionId) == sessionId = NoSessionId

\* chat.ts 17-27: a conversation is created when no sessionId is supplied or
\* the supplied one does not resolve
needsNewConversation(convs, sessionId) ==
    IF sessionId = NoSessionId THEN TRUE
    ELSE getConversation(convs, sessionId) = Null

\* the response of a handler; absent fields are empty
Response(status, reply, sessionId, error) ==
    [status |-> status, reply |-> reply, sessionId |-> sessionId, error |-> error]

NoResponse == Response(0, <<>>, NoSessionId, <<>>)

\* res.status(400).json({ error: "Invalid input", details })
zodErrorResponse == Response(400, <<>>, NoSessionId, <<"Invalid input">>)

\* as errorHandler, answering without the message
errorHandlerNoBody(message) == Response(500, <<>>, NoSessionId, <<>>)

\* errorHandler: res.status(500).json({ error: message })
errorHandler(message) ==
    Response(500, <<>>, NoSessionId,
             IF message = <<>> THEN <<"An error occurred. Please try again later.">>
             ELSE message)

\* as historyResponse, answering 404 for a conversation without messages
historyResponse404WhenEmpty(convs, msgs, sessionId) ==
    IF getConversation(convs, sessionId) = Null \/ getMessages(msgs, sessionId) = <<>>
    THEN [id |-> sessionId, status |-> 404, messages |-> <<>>,
          error |-> <<"Conversation not found">>]
    ELSE [id |-> sessionId, status |-> 200, messages |-> getMessages(msgs, sessionId),
          error |-> <<>>]

\* GET /history/:sessionId
historyResponse(convs, msgs, sessionId) ==
    IF getConversation(convs, sessionId) = Null
    THEN [id |-> sessionId, status |-> 404, messages |-> <<>>,
          error |-> <<"Conversation not found">>]
    ELSE [id |-> sessionId, status |-> 200, messages |-> getMessages(msgs, sessionId),
          error |-> <<>>]

\* a message of the widget's list.  id is the id the list holds for it: the
\* id of the row for a message loaded from the server, Date.now() of the
\* browser for a message typed, Date.now() + 1 for a reply received.  via
\* tells where the message came from: 0 for a message loaded from the
\* server, the number of the send for the message typed and for the reply
WidgetMessage(id, sender, text, via) ==
    [id |-> id, sender |-> sender, text |-> text, via |-> via]

\* ChatWidget.loadHistory from the settlement of its fetch on: on
\* response.ok the list is replaced by the messages of the response, else
\* it stays as it is
loadHistory(w, response) ==
    IF response.status = 200
    THEN [w EXCEPT !.messages =
             [i \in 1..Len(response.messages) |->
                 WidgetMessage(<<"uuid", response.messages[i].id>>,
                               response.messages[i].sender,
                               response.messages[i].text, 0)]]
    ELSE w

(***************************************************************************)
(* Inputs.                                                                 *)
(***************************************************************************)
\* "R", "r ", " ", a message of exactly 5000 characters; "", a message of
\* 5001 characters
Messages ==
    { <<Run("R", 1)>>, <<Run("r", 1), Run(" ", 1)>>, <<Run(" ", 1)>>,
      <<Run("q", MaxMessageLen)>>,
      <<>>, <<Run("q", MaxMessageLen), Run(" ", 1)>> }

\* what a backend answers: a completion, or a failure
BackendOutcome(ok, content, error) == [ok |-> ok, content |-> content, error |-> error]

NoError == BackendError(0, 0, "", <<>>)

\* a credential the selected provider accepts
validKey(p) ==
    CASE p = "groq" -> <<"gsk_", "k">>
      [] p = "gemini" -> <<"AIza", "k">>
      [] OTHER -> <<"sk-", "k">>

\* an entry a Redis server may hold from an earlier run: the reply "c" under
\* the key of "r"
SeededCache ==
    [k \in {getCacheKey(<<Run("r", 1)>>)} |->
        [value |-> <<Run("c", 1)>>, expiresAt |-> TTL]]

EmptyCache == [k \in {} |-> 0]

(***************************************************************************)
(* State.                                                                  *)
(***************************************************************************)
VARIABLES
    provider,       \* process.env.LLM_PROVIDER as getProvider reads it
    apiKey,         \* the credential of the selected provider
    redisConfigured,\* REDIS_URL or REDIS_HOST and REDIS_PORT are set
    redisClient,    \* the module variable redisClient
    cache,          \* the content of the Redis server
    now,            \* Math.floor(Date.now() / 1000)
    conversations,  \* the conversations table
    messages,       \* the messages table
    pc,             \* where each POST /message request stands
    req,            \* the body and the locals of each request
    resp,           \* the response each request got
    calls,          \* the prompt each request sent to the provider backend
    lastGet,        \* the response of the latest GET /history
    issued,         \* the session ids that responses have handed to clients
    lastCall,       \* the latest direct call of a service method and its result
    widget,         \* the chat widget of one browser: state and localStorage
    connects,       \* the calls of getRedisClient and the clients they created
    adapter         \* the module variable app of src/api/index.ts and its requests

vars == <<provider, apiKey, redisConfigured, redisClient, cache, now,
          conversations, messages, pc, req, resp, calls, lastGet, issued,
          lastCall, widget, connects, adapter>>

Reqs == 1..MaxReqs

NoRequest ==
    [body |-> "json",
     message |-> <<>>, sessionId |-> NoSessionId, conversationId |-> NoSessionId,
     conversation |-> Null, created |-> FALSE, userMsgId |-> 0, aiMsgId |-> 0, history |-> <<>>,
     cached |-> Null, cacheGets |-> 0, cacheSets |-> 0, fault |-> "none",
     backend |-> "none", outcome |-> BackendOutcome(FALSE, Null, NoError)]

NoGet == [id |-> NoSessionId, status |-> 0, messages |-> <<>>, error |-> <<>>]

\* uuidv4(): an id no row of the table carries
uuidv4Conversation(convs) == Cardinality(DOMAIN convs) + 1
uuidv4Message(msgs) == Len(msgs) + 1

\* what the database file holds when the process starts: nothing, or the
\* one finished turn of an earlier run ("R" answered by "a")
EmptyDb == [conversations |-> [c \in {} |-> 0], messages |-> <<>>]

OneTurnDb ==
    [conversations |-> [c \in {1} |-> ConversationRow(1, 0, 0)],
     messages |-> << MessageRow(1, 1, "user", <<Run("R", 1)>>, 0),
                     MessageRow(2, 1, "ai", <<Run("a", 1)>>, 0) >>]

\* Redis when the server has started, as <<configured, redisClient, content
\* of the server, the getRedisClient call of start-up has settled>>:
\* connected, empty or holding an entry
RedisUp == <<TRUE, "client", EmptyCache, TRUE>>
RedisSeeded == <<TRUE, "client", SeededCache, TRUE>>
\* no REDIS_URL and no REDIS_HOST
RedisOff == <<FALSE, NoClient, EmptyCache, TRUE>>
\* configured, and the connect at startup failed
RedisDown == <<TRUE, NoClient, SeededCache, TRUE>>

\* at process start, getRedisClient has not been called: configured, and
\* not configured
RedisStarting == <<TRUE, NoClient, EmptyCache, FALSE>>
RedisAbsent == <<FALSE, NoClient, EmptyCache, FALSE>>

\* the callers of getRedisClient: initializeServices or createApp at
\* startup, and the cache service on behalf of each request
Startup == 0
Callers == {Startup} \cup Reqs

\* the n-th client that createClient returned
ClientName(n) == IF n = 1 THEN "client" ELSE "client" \o ToString(n)

\* the calls of getRedisClient when the process is in the given state.
\* created counts the createClient calls, connected holds the clients whose
\* connect succeeded; pc, local and result are each caller's position, its
\* `client` and what its call returned; op is the cache service call that
\* the caller is in, pending the callers whose Redis command is not yet
\* answered, in the order of issue.  Once start-up has settled its call has
\* returned: without a client when Redis is not configured, after one
\* createClient otherwise, with the client when the connect succeeded
connectsAt(configured, client, started) ==
    [created |-> IF started /\ configured THEN 1 ELSE 0,
     connected |-> IF client = NoClient THEN {} ELSE {client},
     pc |-> [k \in Callers |-> IF k = Startup /\ started THEN "returned" ELSE "idle"],
     local |-> [k \in Callers |->
                   IF k = Startup /\ started /\ configured THEN ClientName(1) ELSE NoClient],
     result |-> [k \in Callers |-> IF k = Startup THEN client ELSE NoClient],
     op |-> [k \in Callers |-> [name |-> "none", message |-> <<>>, reply |-> <<>>]],
     pending |-> <<>>]

\* the parts registered on the Express app by createApp, lines 32-40
AppParts == {"cors", "json", "chatRouter", "health", "errorHandler"}

\* src/api/index.ts before its first request: app is null, no request
\* waits for createApp, none was dispatched
NoAdapter ==
    [app |-> Null, pending |-> Null, dispatched |-> [r \in Reqs |-> Null]]

\* no service method has been called directly
NoCall ==
    [op |-> "none", conversationId |-> NoSessionId, message |-> <<>>,
     client |-> NoClient, redisOk |-> TRUE, ok |-> TRUE, error |-> <<>>, value |-> Null]

\* ChatWidget once mounted: the useEffect of lines 38-44 has copied the
\* chatSessionId of localStorage (stored) into the sessionId state and,
\* when there is one, has called loadHistory, whose fetch is pending.
\* sending is the request whose fetch is pending (0 when none, isLoading)
\* and sentAt the id of the message typed for it, lastOk the sessionId of
\* the latest response with response.ok, messages the list that the widget
\* displays, ms the last reading of Date.now(); sent counts the POSTs of the
\* browser and posts holds their bodies: POST r is on its way to the server
\* while r <= sent and the server has not started on request r
widgetMounted(stored) ==
    [sessionId |-> stored, stored |-> stored, sending |-> 0, sentAt |-> 0,
     lastOk |-> Null, messages |-> <<>>, ms |-> 0, sent |-> 0,
     posts |-> [r \in Reqs |-> [message |-> <<>>, sessionId |-> NoSessionId]],
     history |-> [stage |-> IF stored = Null THEN "none" ELSE "sent",
                  response |-> NoGet]]

\* the key of the selected provider for each kind of credential that the
\* environment may hold: usable, unset or "", whitespace, the placeholder of
\* the setup guide, or a key without the provider's prefix
placeholderKey(p) ==
    CASE p = "groq" -> <<"your_groq_api_key_here">>
      [] p = "gemini" -> <<"your_gemini_api_key_here">>
      [] OTHER -> <<"your_openai_api_key_here">>

keyOf(p, kind) ==
    CASE kind = "valid" -> validKey(p)
      [] kind = "absent" -> <<>>
      [] kind = "blank" -> <<" ">>
      [] kind = "placeholder" -> placeholderKey(p)
      [] OTHER -> <<"k">>

\* the state once the process has started and the page is loaded, for the
\* given configurations
InitConfigured(providers, keyKinds, redisStates, dbStates, storedIds) ==
    /\ provider \in providers
    /\ \E kind \in keyKinds : apiKey = keyOf(provider, kind)
    /\ now = 0
    /\ \E db \in dbStates :
          /\ conversations = db.conversations
          /\ messages = db.messages
          /\ issued = DOMAIN db.conversations
    /\ pc = [r \in Reqs |-> "idle"]
    /\ req = [r \in Reqs |-> NoRequest]
    /\ resp = [r \in Reqs |-> NoResponse]
    /\ calls = [r \in Reqs |-> <<>>]
    /\ lastGet = NoGet
    /\ lastCall = NoCall
    /\ \E stored \in storedIds : widget = widgetMounted(stored)
    /\ \E rc \in redisStates :
          /\ redisConfigured = rc[1]
          /\ redisClient = rc[2]
          /\ cache = rc[3]
          /\ connects = connectsAt(rc[1], rc[2], rc[4])
    /\ adapter = NoAdapter

\* the state once the process has started with a valid credential, for the
\* given configurations
InitOver(providers, redisStates, dbStates) ==
    /\ provider \in providers
    /\ apiKey = validKey(provider)
    /\ lastCall = NoCall
    /\ widget = widgetMounted(Null)
    /\ adapter = NoAdapter
    /\ \E rc \in redisStates :
          /\ redisConfigured = rc[1]
          /\ redisClient = rc[2]
          /\ cache = rc[3]
          /\ connects = connectsAt(rc[1], rc[2], rc[4])
    /\ now = 0
    /\ \E db \in dbStates :
          /\ conversations = db.conversations
          /\ messages = db.messages
          /\ issued = DOMAIN db.conversations
    /\ pc = [r \in Reqs |-> "idle"]
    /\ req = [r \in Reqs |-> NoRequest]
    /\ resp = [r \in Reqs |-> NoResponse]
    /\ calls = [r \in Reqs |-> <<>>]
    /\ lastGet = NoGet

(***************************************************************************)
(* POST /message, from the arrival of the request to its first await that  *)
(* yields: the backend call inside generateReply.  The result names the    *)
(* new store, the locals of the handler and, when the handler has already  *)
(* answered, the response.                                                 *)
(***************************************************************************)
\* `if (cached)`: a non-empty cached string
cacheHit(cached) == cached # Null /\ cached[1] # <<>>

Answered(rq, rs, convs, msgs, client) ==
    [pc |-> "done", req |-> rq, resp |-> rs, conversations |-> convs,
     messages |-> msgs, redisClient |-> client, call |-> <<>>]

postMessage(convs, msgs, client, store, t, message, sessionId, fault, connectOk) ==
    LET rq0 == [NoRequest EXCEPT !.message = message, !.sessionId = sessionId,
                                 !.fault = fault]
    IN
    IF ~schemaValid(message, sessionId)
    THEN Answered(rq0, zodErrorResponse, convs, msgs, client)
    ELSE
    LET create == needsNewConversation(convs, sessionId)
        conversationId == IF create THEN uuidv4Conversation(convs) ELSE sessionId
        convs1 == IF create THEN createConversation(convs, conversationId, t) ELSE convs
        rq1 == [rq0 EXCEPT !.conversationId = conversationId, !.created = create,
                           !.conversation = IF sessionId = NoSessionId THEN Null
                                            ELSE getConversation(convs, sessionId)]
    IN
    IF create /\ fault = "create"
    THEN Answered(rq0, errorHandler(<<"SqliteError">>), convs, msgs, client)
    ELSE
    LET userMsgId == uuidv4Message(msgs)
        am == addMessage(convs1, msgs, userMsgId, conversationId, "user", message, t, fault)
    IN
    IF ~am.ok
    THEN Answered(rq1, errorHandler(am.error), am.conversations, am.messages, client)
    ELSE
    \* chat.ts 35: the history handed to generateReply
    LET history == getMessages(am.messages, conversationId)
        eligible == cacheEligible(history)
        client1 == IF eligible THEN getRedisClient(client, redisConfigured, connectOk)
                   ELSE client
        got == IF eligible THEN cacheGet(client1, store, message, t, connectOk)
               ELSE [threw |-> FALSE, value |-> Null]
        cached == got.value
        rq2 == [rq1 EXCEPT !.userMsgId = userMsgId, !.history = history,
                           !.cached = cached,
                           !.cacheGets = IF eligible THEN 1 ELSE 0]
    IN
    IF got.threw
    THEN Answered(rq2, errorHandler(<<"Redis error">>),
                  am.conversations, am.messages, client1)
    ELSE IF cacheHit(cached)
    THEN [pc |-> "awaitReply", req |-> rq2, resp |-> NoResponse,
          conversations |-> am.conversations, messages |-> am.messages,
          redisClient |-> client1, call |-> <<>>]
    ELSE IF ~apiKeyConfigured(provider, apiKey)
    THEN Answered(rq2, errorHandler(apiKeyError(provider)),
                  am.conversations, am.messages, client1)
    ELSE [pc |-> "awaitReply", req |-> [rq2 EXCEPT !.backend = "pending"],
          resp |-> NoResponse,
          conversations |-> am.conversations, messages |-> am.messages,
          redisClient |-> client1,
          call |-> buildPrompt(provider, message, history)]

\* request bodies that carry no message string: text that is not JSON, an
\* object without message, an object whose message is not a string
BadBodies == {"malformedJson", "noMessage", "nonStringMessage"}

\* POST /message with such a body.  express.json() fails on text that is
\* not JSON and passes its error to next(), which reaches errorHandler;
\* the other bodies reach messageSchema.parse, which throws a ZodError
postBody(body) ==
    IF body = "malformedJson"
    THEN errorHandler(<<"Unexpected token in JSON">>)
    ELSE zodErrorResponse

PostBody(r, body) ==
    /\ pc[r] = "idle"
    /\ \A q \in 1..(r - 1) : pc[q] # "idle"
    /\ pc' = [pc EXCEPT ![r] = "done"]
    /\ req' = [req EXCEPT ![r] = [NoRequest EXCEPT !.body = body]]
    /\ resp' = [resp EXCEPT ![r] = postBody(body)]
    /\ UNCHANGED <<connects, adapter, provider, apiKey, redisConfigured, redisClient, cache, now,
                   conversations, messages, calls, lastGet, issued, lastCall, widget>>

\* the request arrives; the widget is left to the caller
PostMessageFrom(r, message, sessionId, fault, connectOk) ==
    /\ pc[r] = "idle"
    /\ LET out == postMessage(conversations, messages, redisClient, cache, now,
                              message, sessionId, fault, connectOk)
       IN  /\ pc' = [pc EXCEPT ![r] = out.pc]
           /\ req' = [req EXCEPT ![r] = out.req]
           /\ resp' = [resp EXCEPT ![r] = out.resp]
           /\ calls' = [calls EXCEPT ![r] = out.call]
           /\ conversations' = out.conversations
           /\ messages' = out.messages
           /\ redisClient' = out.redisClient
    /\ UNCHANGED <<connects, adapter, provider, apiKey, redisConfigured, cache, now, lastGet, issued,
                   lastCall>>

\* POST /message sent by any client other than the widget
PostMessage(r, message, sessionId, fault, connectOk) ==
    /\ \A q \in 1..(r - 1) : pc[q] # "idle"
    /\ PostMessageFrom(r, message, sessionId, fault, connectOk)
    /\ UNCHANGED widget

(***************************************************************************)
(* POST /message, from the settlement of generateReply to the response.    *)
(***************************************************************************)
postMessageResume(convs, msgs, client, store, t, rq, outcome, fault, connectOk) ==
    LET hit == cacheHit(rq.cached)
        settled == IF hit THEN [ok |-> TRUE, reply |-> rq.cached[1], error |-> <<>>]
                   ELSE generateSettle(provider, outcome)
        rq1 == [rq EXCEPT !.backend = IF hit THEN "none"
                                      ELSE IF outcome.ok THEN "ok" ELSE "failed",
                          !.outcome = IF hit THEN rq.outcome ELSE outcome,
                          !.fault = fault]
    IN
    IF ~settled.ok
    THEN [req |-> rq1, resp |-> errorHandler(settled.error), conversations |-> convs,
          messages |-> msgs, redisClient |-> client, cache |-> store]
    ELSE
    LET write == cacheEligible(rq.history) /\ ~hit
        client1 == IF write THEN getRedisClient(client, redisConfigured, connectOk)
                   ELSE client
        set == IF write THEN cacheSet(client1, store, rq.message, settled.reply, t, connectOk)
               ELSE [threw |-> FALSE, store |-> store]
        store1 == set.store
        aiMsgId == uuidv4Message(msgs)
        am == addMessage(convs, msgs, aiMsgId, rq.conversationId, "ai", settled.reply, t, fault)
        rq2 == [rq1 EXCEPT !.cacheSets = IF write THEN 1 ELSE 0,
                           !.aiMsgId = IF am.ok THEN aiMsgId ELSE 0]
    IN  IF set.threw
        THEN [req |-> rq1, resp |-> errorHandler(<<"Redis error">>),
              conversations |-> convs, messages |-> msgs,
              redisClient |-> client1, cache |-> store]
        ELSE [req |-> rq2,
              \* res.json({ reply, sessionId: conversationId })
              resp |-> IF am.ok THEN Response(200, settled.reply, rq.conversationId, <<>>)
                       ELSE errorHandler(am.error),
              conversations |-> am.conversations, messages |-> am.messages,
              redisClient |-> client1, cache |-> store1]

PostMessageResume(r, outcome, fault, connectOk) ==
    /\ pc[r] = "awaitReply"
    /\ LET out == postMessageResume(conversations, messages, redisClient, cache, now,
                                    req[r], outcome, fault, connectOk)
       IN  /\ pc' = [pc EXCEPT ![r] = "done"]
           /\ req' = [req EXCEPT ![r] = out.req]
           /\ resp' = [resp EXCEPT ![r] = out.resp]
           /\ conversations' = out.conversations
           /\ messages' = out.messages
           /\ redisClient' = out.redisClient
           /\ cache' = out.cache
           /\ issued' = IF out.resp.status = 200 THEN issued \cup {out.resp.sessionId}
                        ELSE issued
    /\ UNCHANGED <<connects, adapter, provider, apiKey, redisConfigured, now, calls, lastGet,
                   lastCall, widget>>

(***************************************************************************)
(* GET /history/:sessionId                                                 *)
(***************************************************************************)
GetHistory(sessionId) ==
    /\ lastGet' = historyResponse(conversations, messages, sessionId)
    /\ UNCHANGED <<connects, adapter, provider, apiKey, redisConfigured, redisClient, cache, now,
                   conversations, messages, pc, req, resp, calls, issued,
                   lastCall, widget>>

\* a second passes
Tick ==
    /\ now < MaxTime
    /\ now' = now + 1
    /\ UNCHANGED <<connects, adapter, provider, apiKey, redisConfigured, redisClient, cache,
                   conversations, messages, pc, req, resp, calls, lastGet, issued,
                   lastCall, widget>>

(***************************************************************************)
(* Direct calls of the conversation service, as a caller other than the    *)
(* route may make them.                                                    *)
(***************************************************************************)
\* conversationService.createConversation()
CreateConversation(fault) ==
    /\ Cardinality(DOMAIN conversations) < MaxReqs
    /\ LET id == uuidv4Conversation(conversations)
       IN  IF fault = "create"
           THEN /\ conversations' = conversations
                /\ lastCall' = [NoCall EXCEPT !.op = "createConversation", !.ok = FALSE,
                                              !.error = <<"SqliteError">>]
           ELSE /\ conversations' = createConversation(conversations, id, now)
                /\ lastCall' = [NoCall EXCEPT !.op = "createConversation",
                                              !.conversationId = id]
    /\ UNCHANGED <<connects, adapter, provider, apiKey, redisConfigured, redisClient, cache, now,
                   messages, pc, req, resp, calls, lastGet, issued, widget>>

\* conversationService.addMessage(conversationId, sender, text)
AddMessage(conversationId, sender, text, fault) ==
    /\ Len(messages) < MaxReqs
    /\ LET am == addMessage(conversations, messages, uuidv4Message(messages),
                            conversationId, sender, text, now, fault)
       IN  /\ conversations' = am.conversations
           /\ messages' = am.messages
           /\ lastCall' = [NoCall EXCEPT !.op = "addMessage",
                                         !.conversationId = conversationId,
                                         !.message = text, !.ok = am.ok,
                                         !.error = am.error,
                                         !.value = IF am.ok
                                                   THEN Some(am.messages[Len(am.messages)])
                                                   ELSE Null]
    /\ UNCHANGED <<connects, adapter, provider, apiKey, redisConfigured, redisClient, cache, now,
                   pc, req, resp, calls, lastGet, issued, widget>>

(***************************************************************************)
(* The chat widget (ChatWidget.tsx) of one browser.                        *)
(***************************************************************************)
\* as widgetSend, showing the input as typed
widgetSendUntrimmed(w, r, input, t) ==
    [w EXCEPT !.sending = r, !.sentAt = t, !.ms = t, !.sent = r,
              !.posts[r] = [message |-> trim(input),
                            sessionId |-> IF w.sessionId = Null THEN NoSessionId
                                          ELSE w.sessionId[1]],
              !.messages = Append(@, WidgetMessage(<<"ms", t>>, "user", input, r))]

\* sendMessage, lines 74-102, up to `await fetch`: the trimmed input is
\* appended to the list as a user message with id Date.now(), which reads
\* t, the widget is loading and the POST leaves with the trimmed input and
\* `sessionId || undefined`
widgetSend(w, r, input, t) ==
    [w EXCEPT !.sending = r, !.sentAt = t, !.ms = t, !.sent = r,
              !.posts[r] = [message |-> trim(input),
                            sessionId |-> IF w.sessionId = Null THEN NoSessionId
                                          ELSE w.sessionId[1]],
              !.messages = Append(@, WidgetMessage(<<"ms", t>>, "user",
                                                   trim(input), r))]

\* sendMessage is called when the clock of the browser reads t, no earlier
\* than its last reading: nothing is sent while a request is pending or
\* when the input is empty after trimming or too long
WidgetSend(r, input, t) ==
    /\ widget.sending = 0
    /\ widget.ms <= t
    /\ r = widget.sent + 1
    /\ trim(input) # <<>>
    /\ strlen(trim(input)) <= MaxMessageLen
    /\ widget' = widgetSend(widget, r, input, t)
    /\ UNCHANGED <<connects, adapter, provider, apiKey, redisConfigured, redisClient, cache, now,
                   conversations, messages, pc, req, resp, calls, lastGet, issued,
                   lastCall>>

\* a POST of the browser reaches the server, which runs the handler up to
\* its first await
WidgetPostArrives(r) ==
    /\ r <= widget.sent
    /\ PostMessageFrom(r, widget.posts[r].message, widget.posts[r].sessionId, "none", TRUE)
    /\ UNCHANGED widget

\* the catch and finally blocks of sendMessage: the error is shown, the
\* messages whose id is the id of the message typed leave the list and the
\* widget stops loading
widgetFailed(w) ==
    [w EXCEPT !.sending = 0, !.sentAt = 0,
              !.messages = SelectSeq(@, LAMBDA m : m.id # <<"ms", w.sentAt>>)]

\* sendMessage after its fetch resolved: on response.ok the sessionId of
\* the response is kept only `if (!sessionId && data.sessionId)` and the
\* reply is appended to the list with id Date.now() + 1, the clock reading
\* t; else the code throws into its catch block
widgetReceive(w, response, t) ==
    IF response.status = 200
    THEN LET shown == Append(w.messages,
                             WidgetMessage(<<"ms", t + 1>>, "ai", response.reply,
                                           w.sending))
         IN  IF w.sessionId = Null
             THEN [w EXCEPT !.sessionId = Some(response.sessionId),
                            !.stored = Some(response.sessionId),
                            !.lastOk = Some(response.sessionId),
                            !.sending = 0, !.sentAt = 0, !.ms = t, !.messages = shown]
             ELSE [w EXCEPT !.lastOk = Some(response.sessionId),
                            !.sending = 0, !.sentAt = 0, !.ms = t, !.messages = shown]
    ELSE widgetFailed(w)

\* the response of the server to the pending POST reaches the page when
\* the clock of the browser reads t
WidgetReceive(t) ==
    /\ widget.sending # 0
    /\ widget.ms <= t
    /\ pc[widget.sending] = "done"
    /\ widget' = widgetReceive(widget, resp[widget.sending], t)
    /\ UNCHANGED <<connects, adapter, provider, apiKey, redisConfigured, redisClient, cache, now,
                   conversations, messages, pc, req, resp, calls, lastGet, issued,
                   lastCall>>

\* the pending fetch rejects (the request or its response is lost): the
\* server may not have received the request, may be handling it or may
\* have answered it
WidgetFetchFails ==
    /\ widget.sending # 0
    /\ widget' = widgetFailed(widget)
    /\ UNCHANGED <<connects, adapter, provider, apiKey, redisConfigured, redisClient, cache, now,
                   conversations, messages, pc, req, resp, calls, lastGet, issued,
                   lastCall>>

\* the page is reloaded, at any moment: the widget mounts again with the
\* chatSessionId of localStorage and asks for its history; what the old
\* page was waiting for is answered to nobody, the clock of the browser and
\* the POSTs on their way are as they were
WidgetReload ==
    /\ widget' = [widgetMounted(widget.stored) EXCEPT
                     !.lastOk = widget.lastOk, !.ms = widget.ms,
                     !.sent = widget.sent, !.posts = widget.posts]
    /\ UNCHANGED <<connects, adapter, provider, apiKey, redisConfigured, redisClient, cache, now,
                   conversations, messages, pc, req, resp, calls, lastGet, issued,
                   lastCall>>

\* the server answers the GET /history of the page
WidgetHistoryServed ==
    /\ widget.history.stage = "sent"
    /\ LET response == historyResponse(conversations, messages, widget.stored[1])
       IN  /\ lastGet' = response
           /\ widget' = [widget EXCEPT !.history = [stage |-> "answered",
                                                    response |-> response]]
    /\ UNCHANGED <<connects, adapter, provider, apiKey, redisConfigured, redisClient, cache, now,
                   conversations, messages, pc, req, resp, calls, issued, lastCall>>

\* the answer reaches the page: loadHistory goes on after its fetch
WidgetHistoryArrives ==
    /\ widget.history.stage = "answered"
    /\ widget' = [loadHistory(widget, widget.history.response) EXCEPT
                     !.history = [stage |-> "none", response |-> NoGet]]
    /\ UNCHANGED <<connects, adapter, provider, apiKey, redisConfigured, redisClient, cache, now,
                   conversations, messages, pc, req, resp, calls, lastGet, issued,
                   lastCall>>

\* the GET /history of the page fails (its fetch rejects, or the body of
\* the answer cannot be read): loadHistory logs the error, lines 59-61
WidgetHistoryFails ==
    /\ widget.history.stage \in {"sent", "answered"}
    /\ widget' = [widget EXCEPT !.history = [stage |-> "none", response |-> NoGet]]
    /\ UNCHANGED <<connects, adapter, provider, apiKey, redisConfigured, redisClient, cache, now,
                   conversations, messages, pc, req, resp, calls, lastGet, issued,
                   lastCall>>

(***************************************************************************)
(* getRedisClient as its callers interleave: the call up to                *)
(* `await client.connect()`, and from the settlement of the connect on.    *)
(***************************************************************************)
\* lines 7-42: the module's client when there is one, null when Redis is
\* not configured, else a new client whose connect is awaited
getRedisClientCall(cn, client, configured, k) ==
    IF client # NoClient
    THEN [cn EXCEPT !.pc[k] = "returned", !.result[k] = client]
    ELSE IF ~configured
    THEN [cn EXCEPT !.pc[k] = "returned", !.result[k] = NoClient]
    ELSE [cn EXCEPT !.pc[k] = "connecting", !.created = cn.created + 1,
                    !.local[k] = ClientName(cn.created + 1)]

\* lines 43-49: the connected client is stored in redisClient and returned;
\* after a failed connect redisClient is set to null and null is returned
getRedisClientSettle(cn, k, connectOk) ==
    IF connectOk
    THEN [connects |-> [cn EXCEPT !.pc[k] = "returned", !.result[k] = cn.local[k],
                                  !.connected = cn.connected \cup {cn.local[k]}],
          redisClient |-> cn.local[k]]
    ELSE [connects |-> [cn EXCEPT !.pc[k] = "returned", !.result[k] = NoClient],
          redisClient |-> NoClient]

GetRedisClientCall(k) ==
    /\ connects.pc[k] = "idle"
    /\ connects' = getRedisClientCall(
                      [connects EXCEPT !.op[k] = [@ EXCEPT !.name = "getRedisClient"]],
                      redisClient, redisConfigured, k)
    /\ UNCHANGED <<adapter, provider, apiKey, redisConfigured, redisClient, cache, now,
                   conversations, messages, pc, req, resp, calls, lastGet, issued,
                   lastCall, widget>>

GetRedisClientSettle(k, connectOk) ==
    /\ connects.pc[k] = "connecting"
    /\ connects.op[k].name = "getRedisClient"
    /\ LET out == getRedisClientSettle(connects, k, connectOk)
       IN  /\ connects' = out.connects
           /\ redisClient' = out.redisClient
    /\ UNCHANGED <<adapter, provider, apiKey, redisConfigured, cache, now,
                   conversations, messages, pc, req, resp, calls, lastGet, issued,
                   lastCall, widget>>

(***************************************************************************)
(* Direct calls of the cache service by a caller k.  A call awaits         *)
(* getRedisClient, which waits for the connect when it creates a client,   *)
(* and then the Redis command; other calls run in between.                 *)
(***************************************************************************)
\* get and set up to their first wait: getRedisClient returns the module's
\* client, on which the command is issued, or null, with which the call
\* returns, or it waits for a connect
cacheCall(cn, client, configured, k, op) ==
    LET called == getRedisClientCall([cn EXCEPT !.op[k] = op], client, configured, k)
    IN  IF called.pc[k] = "connecting" \/ called.result[k] = NoClient
        THEN called
        ELSE [called EXCEPT !.pc[k] = "command", !.local[k] = called.result[k],
                            !.pending = Append(@, k)]

\* what lastCall holds when a call of the cache service has returned
cacheReturned(op, client, redisOk, value) ==
    [NoCall EXCEPT !.op = op.name, !.message = op.message, !.client = client,
                   !.redisOk = redisOk, !.value = value]

\* cacheService.get(userMessage), lines 61-64
CacheGet(k, userMessage) ==
    /\ connects.pc[k] = "idle"
    /\ LET op == [name |-> "cacheGet", message |-> userMessage, reply |-> <<>>]
           called == cacheCall(connects, redisClient, redisConfigured, k, op)
       IN  /\ connects' = called
           /\ lastCall' = IF called.pc[k] = "returned"
                          THEN cacheReturned(op, NoClient, TRUE, Null)
                          ELSE lastCall
    /\ UNCHANGED <<adapter, provider, apiKey, redisConfigured, redisClient, cache, now,
                   conversations, messages, pc, req, resp, calls, lastGet, issued, widget>>

\* cacheService.set(userMessage, reply), lines 75-78
CacheSet(k, userMessage, reply) ==
    /\ connects.pc[k] = "idle"
    /\ LET op == [name |-> "cacheSet", message |-> userMessage, reply |-> reply]
           called == cacheCall(connects, redisClient, redisConfigured, k, op)
       IN  /\ connects' = called
           /\ lastCall' = IF called.pc[k] = "returned"
                          THEN cacheReturned(op, NoClient, TRUE, Some(reply))
                          ELSE lastCall
    /\ UNCHANGED <<adapter, provider, apiKey, redisConfigured, redisClient, cache, now,
                   conversations, messages, pc, req, resp, calls, lastGet, issued, widget>>

\* the connect that a get or set waits for settles: on success the command
\* is issued on the new client, else getRedisClient returned null and the
\* call returns
CacheConnected(k, connectOk) ==
    /\ connects.pc[k] = "connecting"
    /\ connects.op[k].name \in {"cacheGet", "cacheSet"}
    /\ LET out == getRedisClientSettle(connects, k, connectOk)
           op == connects.op[k]
       IN  /\ redisClient' = out.redisClient
           /\ connects' = IF connectOk
                          THEN [out.connects EXCEPT !.pc[k] = "command",
                                                    !.pending = Append(@, k)]
                          ELSE out.connects
           /\ lastCall' = IF connectOk THEN lastCall
                          ELSE cacheReturned(op, NoClient, FALSE,
                                             IF op.name = "cacheGet" THEN Null
                                             ELSE Some(op.reply))
    /\ UNCHANGED <<adapter, provider, apiKey, redisConfigured, cache, now,
                   conversations, messages, pc, req, resp, calls, lastGet, issued, widget>>

\* the command of caller k is the next to be answered on its connection
nextOnConnection(cn, k) ==
    \E i \in 1..Len(cn.pending) :
        /\ cn.pending[i] = k
        /\ \A j \in 1..(i - 1) : cn.local[cn.pending[j]] # cn.local[k]

\* client.get is answered, or fails when the server is not reachable
\* (redisOk): lines 67-72
CacheGetSettle(k, redisOk) ==
    /\ connects.pc[k] = "command"
    /\ connects.op[k].name = "cacheGet"
    /\ nextOnConnection(connects, k)
    /\ LET op == connects.op[k]
           got == cacheGet(connects.local[k], cache, op.message, now, redisOk)
       IN  /\ connects' = [connects EXCEPT
                               !.pc[k] = "returned",
                               !.pending = SelectSeq(@, LAMBDA j : j # k)]
           /\ lastCall' = [cacheReturned(op, connects.local[k], redisOk, got.value)
                              EXCEPT !.ok = ~got.threw]
    /\ UNCHANGED <<adapter, provider, apiKey, redisConfigured, redisClient, cache, now,
                   conversations, messages, pc, req, resp, calls, lastGet, issued, widget>>

\* client.setEx is answered, or fails: lines 81-84
CacheSetSettle(k, redisOk) ==
    /\ connects.pc[k] = "command"
    /\ connects.op[k].name = "cacheSet"
    /\ nextOnConnection(connects, k)
    /\ LET op == connects.op[k]
           set == cacheSet(connects.local[k], cache, op.message, op.reply, now, redisOk)
       IN  /\ connects' = [connects EXCEPT
                               !.pc[k] = "returned",
                               !.pending = SelectSeq(@, LAMBDA j : j # k)]
           /\ cache' = set.store
           /\ lastCall' = [cacheReturned(op, connects.local[k], redisOk, Some(op.reply))
                              EXCEPT !.ok = ~set.threw]
    /\ UNCHANGED <<adapter, provider, apiKey, redisConfigured, redisClient, now,
                   conversations, messages, pc, req, resp, calls, lastGet, issued, widget>>

(***************************************************************************)
(* Direct calls of llmService.generateReply(userMessage, history), as a    *)
(* caller other than the route may make them.  The call takes a request    *)
(* slot for its locals and is caller r of the cache service; its result    *)
(* goes to lastCall.  With an empty history the call awaits                *)
(* cacheService.get before the backend call and cacheService.set after it, *)
(* and other calls run in between.                                         *)
(***************************************************************************)
\* generateReply once its lookup is over, lines 135-153: cached is what
\* cacheService.get returned, null when no lookup was made.  A cached text
\* is returned, else the credential is checked and the prompt is sent to the
\* backend
GenerateReplyLookedUp(r, rq, cached) ==
    LET rq1 == [rq EXCEPT !.cached = cached]
        call == [NoCall EXCEPT !.op = "generateReply", !.message = rq.message]
    IN  IF cacheHit(cached)
        THEN /\ pc' = [pc EXCEPT ![r] = "done"]
             /\ req' = [req EXCEPT ![r] = rq1]
             /\ calls' = calls
             /\ lastCall' = [call EXCEPT !.value = cached]
        ELSE IF ~apiKeyConfigured(provider, apiKey)
        THEN /\ pc' = [pc EXCEPT ![r] = "done"]
             /\ req' = [req EXCEPT ![r] = rq1]
             /\ calls' = calls
             /\ lastCall' = [call EXCEPT !.ok = FALSE, !.error = apiKeyError(provider)]
        ELSE /\ pc' = [pc EXCEPT ![r] = "awaitGenerate"]
             /\ req' = [req EXCEPT ![r] = [rq1 EXCEPT !.backend = "pending"]]
             /\ calls' = [calls EXCEPT ![r] = buildPrompt(provider, rq.message, rq.history)]
             /\ lastCall' = lastCall

\* generateReply is called, lines 129-134: with an empty history it calls
\* cacheService.get and waits for the connect or for client.get, unless
\* there is no client to ask
GenerateReply(r, userMessage, history) ==
    /\ pc[r] = "idle"
    /\ \A q \in 1..(r - 1) : pc[q] # "idle"
    /\ LET eligible == cacheEligible(history)
           rq == [NoRequest EXCEPT !.body = "generateReply", !.message = userMessage,
                                   !.history = history,
                                   !.cacheGets = IF eligible THEN 1 ELSE 0]
           op == [name |-> "generateReply.get", message |-> userMessage, reply |-> <<>>]
           called == IF eligible
                     THEN cacheCall(connects, redisClient, redisConfigured, r, op)
                     ELSE connects
       IN  /\ connects' = called
           /\ IF eligible /\ called.pc[r] # "returned"
              THEN /\ pc' = [pc EXCEPT ![r] = "awaitCacheGet"]
                   /\ req' = [req EXCEPT ![r] = rq]
                   /\ UNCHANGED <<calls, lastCall>>
              ELSE GenerateReplyLookedUp(r, rq, Null)
    /\ UNCHANGED <<adapter, provider, apiKey, redisConfigured, redisClient, cache, now,
                   conversations, messages, resp, lastGet, issued, widget>>

\* the connect that the get or the set of a generateReply call waits for
\* settles: on success the command is issued on the new client, else the
\* cache service returns (null from get) and generateReply goes on
GenerateReplyConnected(r, connectOk) ==
    /\ connects.pc[r] = "connecting"
    /\ connects.op[r].name \in {"generateReply.get", "generateReply.set"}
    /\ LET out == getRedisClientSettle(connects, r, connectOk)
           op == connects.op[r]
       IN  /\ redisClient' = out.redisClient
           /\ IF connectOk
              THEN /\ connects' = [out.connects EXCEPT !.pc[r] = "command",
                                                       !.pending = Append(@, r)]
                   /\ UNCHANGED <<pc, req, calls, lastCall>>
              ELSE /\ connects' = out.connects
                   /\ IF op.name = "generateReply.get"
                      THEN GenerateReplyLookedUp(r, req[r], Null)
                      ELSE /\ pc' = [pc EXCEPT ![r] = "done"]
                           /\ lastCall' = [NoCall EXCEPT !.op = "generateReply",
                                                         !.message = op.message,
                                                         !.value = Some(op.reply)]
                           /\ UNCHANGED <<req, calls>>
    /\ UNCHANGED <<adapter, provider, apiKey, redisConfigured, cache, now,
                   conversations, messages, resp, lastGet, issued, widget>>

\* client.get of the lookup is answered, or fails when the server is not
\* reachable (redisOk): cacheService.get returns and generateReply goes on
GenerateReplyGet(r, redisOk) ==
    /\ connects.pc[r] = "command"
    /\ connects.op[r].name = "generateReply.get"
    /\ nextOnConnection(connects, r)
    /\ LET op == connects.op[r]
           got == cacheGet(connects.local[r], cache, op.message, now, redisOk)
       IN  /\ connects' = [connects EXCEPT !.pc[r] = "returned",
                                           !.pending = SelectSeq(@, LAMBDA j : j # r)]
           /\ IF got.threw
              THEN /\ pc' = [pc EXCEPT ![r] = "done"]
                   /\ lastCall' = [NoCall EXCEPT !.op = "generateReply",
                                                 !.message = op.message, !.ok = FALSE,
                                                 !.error = <<"Redis error">>]
                   /\ UNCHANGED <<req, calls>>
              ELSE GenerateReplyLookedUp(r, req[r], got.value)
    /\ UNCHANGED <<adapter, provider, apiKey, redisConfigured, redisClient, cache, now,
                   conversations, messages, resp, lastGet, issued, widget>>

\* the backend call settles, lines 141-158: a failure is thrown on; with an
\* empty history the reply is handed to cacheService.set, which waits for
\* the connect or for client.setEx, unless there is no client
GenerateReplySettle(r, outcome) ==
    /\ pc[r] = "awaitGenerate"
    /\ LET rq == req[r]
           settled == generateSettle(provider, outcome)
           write == settled.ok /\ cacheEligible(rq.history)
           op == [name |-> "generateReply.set", message |-> rq.message,
                  reply |-> settled.reply]
           called == IF write
                     THEN cacheCall(connects, redisClient, redisConfigured, r, op)
                     ELSE connects
           call == [NoCall EXCEPT !.op = "generateReply", !.message = rq.message]
       IN  /\ connects' = called
           /\ req' = [req EXCEPT ![r] =
                         [rq EXCEPT !.backend = IF outcome.ok THEN "ok" ELSE "failed",
                                    !.outcome = outcome,
                                    !.cacheSets = IF write THEN 1 ELSE 0]]
           /\ IF write /\ called.pc[r] # "returned"
              THEN /\ pc' = [pc EXCEPT ![r] = "awaitCacheSet"]
                   /\ lastCall' = lastCall
              ELSE /\ pc' = [pc EXCEPT ![r] = "done"]
                   /\ lastCall' = IF settled.ok
                                  THEN [call EXCEPT !.value = Some(settled.reply)]
                                  ELSE [call EXCEPT !.ok = FALSE, !.error = settled.error]
    /\ UNCHANGED <<adapter, provider, apiKey, redisConfigured, redisClient, cache, now,
                   conversations, messages, resp, calls, lastGet, issued, widget>>

\* client.setEx is answered, or fails: cacheService.set returns and
\* generateReply returns the reply, lines 158-161
GenerateReplySetEx(r, redisOk) ==
    /\ connects.pc[r] = "command"
    /\ connects.op[r].name = "generateReply.set"
    /\ nextOnConnection(connects, r)
    /\ LET op == connects.op[r]
           set == cacheSet(connects.local[r], cache, op.message, op.reply, now, redisOk)
           call == [NoCall EXCEPT !.op = "generateReply", !.message = op.message]
       IN  /\ connects' = [connects EXCEPT !.pc[r] = "returned",
                                           !.pending = SelectSeq(@, LAMBDA j : j # r)]
           /\ cache' = set.store
           /\ pc' = [pc EXCEPT ![r] = "done"]
           /\ lastCall' = IF set.threw
                          THEN [call EXCEPT !.ok = FALSE, !.error = <<"Redis error">>]
                          ELSE [call EXCEPT !.value = Some(op.reply)]
    /\ UNCHANGED <<adapter, provider, apiKey, redisConfigured, redisClient, now,
                   conversations, messages, req, resp, calls, lastGet, issued, widget>>

(***************************************************************************)
(* The serverless handler of src/api/index.ts.                             *)
(***************************************************************************)
\* appInstance(req, res): the request runs through the parts registered on
\* the app at that moment; POST /chat/message reaches the route when
\* chatRouter is among them
dispatch(a, r, registered, convs, msgs, client, store, t, message, sessionId) ==
    LET ran == IF "chatRouter" \in registered
               THEN postMessage(convs, msgs, client, store, t, message, sessionId,
                                "none", TRUE)
               ELSE Answered([NoRequest EXCEPT !.message = message,
                                               !.sessionId = sessionId],
                             \* without a matching route: 404 (finalhandler)
                             Response(404, <<>>, NoSessionId, <<"Cannot POST">>),
                             convs, msgs, client)
    IN  [ran |-> ran,
         adapter |-> [a EXCEPT !.dispatched[r] = Some(registered)]]

\* the handler up to the first await that waits for an event: createApp
\* returns app when it is set; else it sets app, and registers the parts
\* after `await getRedisClient()`, which waits when a connect is needed
ServerlessHandler(r, message, sessionId) ==
    /\ pc[r] = "idle"
    /\ \A q \in 1..(r - 1) : pc[q] # "idle"
    /\ IF adapter.app = Null
          /\ getRedisClientCall(connects, redisClient, redisConfigured, Startup).pc[Startup]
                = "connecting"
       THEN /\ adapter' = [adapter EXCEPT
                              !.app = Some({}),
                              !.pending = Some([r |-> r, message |-> message,
                                                sessionId |-> sessionId])]
            /\ connects' = getRedisClientCall(connects, redisClient, redisConfigured,
                                              Startup)
            /\ pc' = [pc EXCEPT ![r] = "awaitApp"]
            /\ UNCHANGED <<req, resp, calls, conversations, messages, redisClient>>
       ELSE LET created == adapter.app = Null
                registered == IF created THEN AppParts ELSE adapter.app[1]
                out == dispatch([adapter EXCEPT !.app = Some(registered)], r, registered,
                                conversations, messages, redisClient, cache, now,
                                message, sessionId)
            IN  /\ adapter' = out.adapter
                /\ connects' = IF created
                               THEN getRedisClientCall(connects, redisClient,
                                                       redisConfigured, Startup)
                               ELSE connects
                /\ pc' = [pc EXCEPT ![r] = out.ran.pc]
                /\ req' = [req EXCEPT ![r] = out.ran.req]
                /\ resp' = [resp EXCEPT ![r] = out.ran.resp]
                /\ calls' = [calls EXCEPT ![r] = out.ran.call]
                /\ conversations' = out.ran.conversations
                /\ messages' = out.ran.messages
                /\ redisClient' = out.ran.redisClient
    /\ UNCHANGED <<provider, apiKey, redisConfigured, cache, now, lastGet, issued,
                   lastCall, widget>>

\* createApp from the settlement of the connect on: the parts are
\* registered, app is returned and the waiting request is dispatched
ServerlessCreated(connectOk) ==
    /\ adapter.pending # Null
    /\ connects.pc[Startup] = "connecting"
    /\ LET settled == getRedisClientSettle(connects, Startup, connectOk)
           w == adapter.pending[1]
           out == dispatch([adapter EXCEPT !.app = Some(AppParts), !.pending = Null],
                           w.r, AppParts, conversations, messages, settled.redisClient,
                           cache, now, w.message, w.sessionId)
       IN  /\ adapter' = out.adapter
           /\ connects' = settled.connects
           /\ pc' = [pc EXCEPT ![w.r] = out.ran.pc]
           /\ req' = [req EXCEPT ![w.r] = out.ran.req]
           /\ resp' = [resp EXCEPT ![w.r] = out.ran.resp]
           /\ calls' = [calls EXCEPT ![w.r] = out.ran.call]
           /\ conversations' = out.ran.conversations
           /\ messages' = out.ran.messages
           /\ redisClient' = out.ran.redisClient
    /\ UNCHANGED <<provider, apiKey, redisConfigured, cache, now, lastGet, issued,
                   lastCall, widget>>

\* session ids a request may carry
SessionIds == {NoSessionId} \cup issued

Reply == BackendOutcome(TRUE, Some(<<Run(" ", 1), Run("a", 1)>>), NoError)
RateLimited == BackendOutcome(FALSE, Null, BackendError(429, 0, "", <<"Too Many Requests">>))

\* what a backend may answer without usable text: no content, "", " "
EmptyCompletions ==
    { BackendOutcome(TRUE, Null, NoError),
      BackendOutcome(TRUE, Some(<<>>), NoError),
      BackendOutcome(TRUE, Some(<<Run(" ", 1)>>), NoError) }

\* failures of a backend call: HTTP 401, 429, 503 and 500, a 429 carried
\* by error.response only, a 429 whose message speaks of a timeout, a
\* timeout by code and by message, an error without message
Failures ==
    { BackendOutcome(FALSE, Null, BackendError(401, 0, "", <<"Unauthorized">>)),
      RateLimited,
      BackendOutcome(FALSE, Null, BackendError(503, 0, "", <<"Service Unavailable">>)),
      BackendOutcome(FALSE, Null, BackendError(500, 0, "", <<"Internal Server Error">>)),
      BackendOutcome(FALSE, Null, BackendError(0, 429, "", <<"Request failed">>)),
      BackendOutcome(FALSE, Null, BackendError(429, 0, "", <<"retry after the ", "timeout">>)),
      BackendOutcome(FALSE, Null, BackendError(0, 0, "ECONNABORTED", <<"aborted">>)),
      BackendOutcome(FALSE, Null, BackendError(0, 0, "", <<"Request ", "timeout", " of 10000ms">>)),
      BackendOutcome(FALSE, Null, NoError) }

(***************************************************************************)
(* Spec: conversation turns.  Any provider, Redis connected, two messages   *)
(* with the same normal form, the backend answers or is rate limited, the  *)
(* store does not fail.                                                    *)
(***************************************************************************)
TurnMessages == {<<Run("R", 1)>>, <<Run("r", 1), Run(" ", 1)>>}

Init == InitOver(Providers, {RedisUp}, {OneTurnDb})

Next ==
    \/ \E r \in Reqs, message \in TurnMessages, sessionId \in SessionIds :
          PostMessage(r, message, sessionId, "none", TRUE)
    \/ \E r \in Reqs, outcome \in {Reply, RateLimited} :
          PostMessageResume(r, outcome, "none", TRUE)
    \/ Tick

Spec == Init /\ [][Next]_vars

(***************************************************************************)
(* SpecCache: as Spec with one provider, over a Redis that is empty or     *)
(* holds a reply under the key of the messages sent.                       *)
(***************************************************************************)
InitCache == InitOver({"openai"}, {RedisUp, RedisSeeded}, {OneTurnDb})

NextCache ==
    \/ \E r \in Reqs, message \in TurnMessages, sessionId \in SessionIds :
          PostMessage(r, message, sessionId, "none", TRUE)
    \/ \E r \in Reqs, outcome \in {Reply, RateLimited} :
          PostMessageResume(r, outcome, "none", TRUE)
    \/ Tick

SpecCache == InitCache /\ [][NextCache]_vars

(***************************************************************************)
(* SpecValidation: request bodies of every shape, valid or not.            *)
(***************************************************************************)
InitValidation == InitOver({"openai"}, {RedisUp}, {EmptyDb})

NextValidation ==
    \/ \E r \in Reqs, message \in Messages,
          sessionId \in SessionIds \cup {UnknownUuid, NotAUuid} :
          PostMessage(r, message, sessionId, "none", TRUE)
    \/ \E r \in Reqs : PostMessageResume(r, Reply, "none", TRUE)
    \/ \E r \in Reqs, body \in BadBodies : PostBody(r, body)

SpecValidation == InitValidation /\ [][NextValidation]_vars

(***************************************************************************)
(* SpecStore: the store may fail on any of its write statements, the        *)
(* backend may fail, and clients read histories.                           *)
(***************************************************************************)
InitStore == InitOver({"openai"}, {RedisUp}, {EmptyDb})

NextStore ==
    \/ \E r \in Reqs, sessionId \in SessionIds, fault \in {"none", "create", "insert", "update"} :
          PostMessage(r, <<Run("R", 1)>>, sessionId, fault, TRUE)
    \/ \E r \in Reqs, outcome \in {Reply, RateLimited},
          fault \in {"none", "insert", "update"} :
          PostMessageResume(r, outcome, fault, TRUE)
    \/ \E sessionId \in DOMAIN conversations \cup {UnknownUuid} : GetHistory(sessionId)
    \/ Tick

SpecStore == InitStore /\ [][NextStore]_vars

(***************************************************************************)
(* SpecErrors: the backend answers with usable text, without, or fails in  *)
(* any of the ways handleError tells apart.                                *)
(***************************************************************************)
InitErrors == InitOver(Providers, {RedisUp}, {OneTurnDb})

NextErrors ==
    \/ \E r \in Reqs, sessionId \in SessionIds :
          PostMessage(r, <<Run("R", 1)>>, sessionId, "none", TRUE)
    \/ \E r \in Reqs, outcome \in {Reply} \cup EmptyCompletions \cup Failures :
          PostMessageResume(r, outcome, "none", TRUE)

SpecErrors == InitErrors /\ [][NextErrors]_vars

(***************************************************************************)
(* SpecKeys: the process runs with a credential of any kind.               *)
(***************************************************************************)
InitKeys == InitConfigured(Providers, {"valid", "absent", "blank", "placeholder", "noPrefix"},
                           {RedisUp}, {OneTurnDb}, {Null})

NextKeys ==
    \/ \E r \in Reqs, sessionId \in SessionIds :
          PostMessage(r, <<Run("R", 1)>>, sessionId, "none", TRUE)
    \/ \E r \in Reqs, outcome \in {Reply, RateLimited} :
          PostMessageResume(r, outcome, "none", TRUE)

SpecKeys == InitKeys /\ [][NextKeys]_vars

(***************************************************************************)
(* SpecCacheFaults: Redis is not configured, was unreachable at startup,   *)
(* or is connected and may become unreachable at any call; the cache       *)
(* service is also called directly, by two callers (the first and the last *)
(* slot) whose calls may overlap.                                          *)
(***************************************************************************)
InitCacheFaults ==
    InitOver({"openai"}, {RedisOff, RedisDown, RedisUp, RedisSeeded}, {EmptyDb})

NextCacheFaults ==
    \/ \E r \in Reqs, sessionId \in SessionIds, redisOk \in BOOLEAN :
          PostMessage(r, <<Run("R", 1)>>, sessionId, "none", redisOk)
    \/ \E r \in Reqs, redisOk \in BOOLEAN :
          PostMessageResume(r, Reply, "none", redisOk)
    \/ \E k \in {1, MaxReqs} : CacheGet(k, <<Run("R", 1)>>)
    \/ \E k \in {1, MaxReqs} : CacheSet(k, <<Run("R", 1)>>, <<Run("a", 1)>>)
    \/ \E k \in {1, MaxReqs}, connectOk \in BOOLEAN : CacheConnected(k, connectOk)
    \/ \E k \in {1, MaxReqs}, redisOk \in BOOLEAN : CacheGetSettle(k, redisOk)
    \/ \E k \in {1, MaxReqs}, redisOk \in BOOLEAN : CacheSetSettle(k, redisOk)

SpecCacheFaults == InitCacheFaults /\ [][NextCacheFaults]_vars

(***************************************************************************)
(* SpecWidget: one browser talks to the server through the widget; the     *)
(* steps of the page and of the server interleave.  The database holds one *)
(* finished turn; localStorage is empty, holds the id of that conversation *)
(* or holds an id that the database no longer has.                         *)
(***************************************************************************)
InitWidget ==
    InitConfigured({"openai"}, {"valid"}, {RedisUp}, {OneTurnDb},
                   {Null, Some(UnknownUuid), Some(1)})

NextWidget ==
    \/ \E r \in Reqs, t \in 0..MaxMs : WidgetSend(r, <<Run("r", 1), Run(" ", 1)>>, t)
    \/ \E r \in Reqs : WidgetPostArrives(r)
    \/ \E r \in Reqs, outcome \in {Reply, RateLimited} :
          PostMessageResume(r, outcome, "none", TRUE)
    \/ \E t \in 0..MaxMs : WidgetReceive(t)
    \/ WidgetFetchFails
    \/ WidgetReload
    \/ WidgetHistoryServed
    \/ WidgetHistoryArrives
    \/ WidgetHistoryFails

SpecWidget == InitWidget /\ [][NextWidget]_vars

(***************************************************************************)
(* SpecGenerate: generateReply called directly with "r " or "q", with an   *)
(* empty history or a history of one message, over a Redis that is         *)
(* connected and empty, holds a reply under the key of "r", holds one that *)
(* expires at second 1, or has not been connected yet.  Redis answers      *)
(* every connect and every command.                                        *)
(***************************************************************************)
\* connected, holding an entry written 3599 seconds before the process
\* started
RedisExpiring ==
    <<TRUE, "client",
      [k \in {getCacheKey(<<Run("r", 1)>>)} |->
          [value |-> <<Run("c", 1)>>, expiresAt |-> 1]],
      TRUE>>

InitGenerate ==
    InitOver({"openai"}, {RedisUp, RedisSeeded, RedisExpiring, RedisStarting}, {EmptyDb})

NextGenerate ==
    \/ \E r \in Reqs, userMessage \in {<<Run("r", 1), Run(" ", 1)>>, <<Run("q", 1)>>},
          history \in {<<>>, <<MessageRow(1, 1, "user", <<Run("R", 1)>>, 0)>>} :
          GenerateReply(r, userMessage, history)
    \/ \E r \in Reqs : GenerateReplyConnected(r, TRUE)
    \/ \E r \in Reqs : GenerateReplyGet(r, TRUE)
    \/ \E r \in Reqs, outcome \in {Reply, RateLimited, BackendOutcome(TRUE, Null, NoError)} :
          GenerateReplySettle(r, outcome)
    \/ \E r \in Reqs : GenerateReplySetEx(r, TRUE)
    \/ Tick

SpecGenerate == InitGenerate /\ [][NextGenerate]_vars

(***************************************************************************)
(* SpecPrompt: generateReply called directly with histories shorter than,  *)
(* as long as and longer than maxHistoryMessages, for every provider.      *)
(***************************************************************************)
\* a history of n messages, user and ai in turn, the i-th with a text of
\* i characters
HistoryOf(n) ==
    [i \in 1..n |->
        MessageRow(i, 1, IF i % 2 = 1 THEN "user" ELSE "ai", <<Run("m", i)>>, 0)]

InitPrompt == InitOver(Providers, {RedisUp}, {EmptyDb})

NextPrompt ==
    \/ \E r \in Reqs, n \in {0, 1, 9, 10, 11, 12} :
          GenerateReply(r, <<Run("R", 1)>>, HistoryOf(n))
    \/ \E r \in Reqs : GenerateReplyGet(r, TRUE)
    \/ \E r \in Reqs : GenerateReplySettle(r, Reply)
    \/ \E r \in Reqs : GenerateReplySetEx(r, TRUE)

SpecPrompt == InitPrompt /\ [][NextPrompt]_vars

(***************************************************************************)
(* SpecCacheKey: the cache service called directly, by two callers whose  *)
(* calls may overlap, with messages that differ in case and in leading and *)
(* trailing spaces, and with others.                                       *)
(***************************************************************************)
\* "R", "r ", " R", " ", "q", " q"
KeyMessages ==
    { <<Run("R", 1)>>, <<Run("r", 1), Run(" ", 1)>>, <<Run(" ", 1), Run("R", 1)>>,
      <<Run(" ", 1)>>, <<Run("q", 1)>>, <<Run(" ", 1), Run("q", 1)>> }

InitCacheKey == InitOver({"openai"}, {RedisUp, RedisSeeded, RedisExpiring}, {EmptyDb})

NextCacheKey ==
    \/ \E k \in {1, MaxReqs}, userMessage \in KeyMessages : CacheGet(k, userMessage)
    \/ \E k \in {1, MaxReqs}, userMessage \in KeyMessages :
          CacheSet(k, userMessage, <<Run("a", 1)>>)
    \/ \E k \in {1, MaxReqs} : CacheGetSettle(k, TRUE)
    \/ \E k \in {1, MaxReqs} : CacheSetSettle(k, TRUE)
    \/ Tick

SpecCacheKey == InitCacheKey /\ [][NextCacheKey]_vars

(***************************************************************************)
(* SpecFrame: requests carry no session id, the id of a conversation that  *)
(* exists, or one that the database does not hold, while the clock runs.   *)
(***************************************************************************)
InitFrame == InitOver({"openai"}, {RedisUp}, {OneTurnDb})

NextFrame ==
    \/ \E r \in Reqs, sessionId \in SessionIds \cup {UnknownUuid} :
          PostMessage(r, <<Run("R", 1)>>, sessionId, "none", TRUE)
    \/ \E r \in Reqs, outcome \in {Reply, RateLimited} :
          PostMessageResume(r, outcome, "none", TRUE)
    \/ Tick

SpecFrame == InitFrame /\ [][NextFrame]_vars

(***************************************************************************)
(* SpecRedis: getRedisClient called at startup and on behalf of requests,  *)
(* in any interleaving, with Redis not configured or configured.           *)
(***************************************************************************)
InitRedis == InitOver({"openai"}, {RedisAbsent, RedisStarting}, {EmptyDb})

NextRedis ==
    \/ \E k \in Callers : GetRedisClientCall(k)
    \/ \E k \in Callers, connectOk \in BOOLEAN : GetRedisClientSettle(k, connectOk)

SpecRedis == InitRedis /\ [][NextRedis]_vars

(***************************************************************************)
(* SpecServerless: the requests reach the server through the serverless    *)
(* handler of a fresh instance.                                            *)
(***************************************************************************)
InitServerless == InitOver({"openai"}, {RedisAbsent, RedisStarting}, {EmptyDb, OneTurnDb})

NextServerless ==
    \/ \E r \in Reqs, sessionId \in SessionIds :
          ServerlessHandler(r, <<Run("R", 1)>>, sessionId)
    \/ \E connectOk \in BOOLEAN : ServerlessCreated(connectOk)
    \/ \E r \in Reqs, outcome \in {Reply, RateLimited} :
          PostMessageResume(r, outcome, "none", TRUE)
    \/ Tick

SpecServerless == InitServerless /\ [][NextServerless]_vars

(***************************************************************************)
(* SpecService: the conversation service called directly, with any         *)
(* conversation id, while the store may fail on a write statement.         *)
(***************************************************************************)
InitService == InitOver({"openai"}, {RedisUp}, {EmptyDb})

NextService ==
    \/ \E fault \in {"none", "create"} : CreateConversation(fault)
    \/ \E conversationId \in DOMAIN conversations \cup {UnknownUuid},
          sender \in {"user", "ai"}, fault \in {"none", "insert", "update"} :
          AddMessage(conversationId, sender, <<Run("R", 1)>>, fault)
    \/ Tick

SpecService == InitService /\ [][NextService]_vars

(***************************************************************************)
(* Properties.                                                             *)
(***************************************************************************)
\* the rows of a conversation, in rowid order
RowsOf(msgs, conversationId) ==
    SelectSeq(msgs, LAMBDA m : m.conversationId = conversationId)

\* the row of the given id
RowById(msgs, id) == CHOOSE m \in Range(msgs) : m.id = id

HasRow(msgs, id) == \E m \in Range(msgs) : m.id = id

\* request r arrives and reaches the backend call in this step
Arrives(r) == pc[r] = "idle" /\ pc'[r] = "awaitReply"

\* request r is answered in this step, after generateReply settled
Resumes(r) == pc[r] = "awaitReply" /\ pc'[r] = "done"

\* the backend answered the request with usable text and the store took
\* the reply
ReplyGenerated(rq) ==
    /\ rq.backend = "ok"
    /\ rq.outcome.ok
    /\ rq.outcome.content # Null
    /\ trim(rq.outcome.content[1]) # <<>>
    /\ rq.fault = "none"

\* C1: a valid POST /message without sessionId whose provider call succeeds
\* is answered with the id of a conversation created by that request, and
\* the history of that id read right after the response is the user message
\* with the submitted text followed by the ai message with the reply, also
\* when both rows carry the same timestamp.
C1_NewConversationTurn ==
    [][\A r \in Reqs :
        /\ (Arrives(r) /\ req'[r].sessionId = NoSessionId)
              => /\ req'[r].conversationId \notin DOMAIN conversations
                 /\ req'[r].conversationId \in DOMAIN conversations'
        /\ (Resumes(r) /\ req'[r].sessionId = NoSessionId /\ ReplyGenerated(req'[r]))
              => LET h == historyResponse(conversations', messages', resp'[r].sessionId)
                 IN  /\ resp'[r].status = 200
                     /\ resp'[r].sessionId = req[r].conversationId
                     /\ h.status = 200
                     /\ Len(h.messages) = 2
                     /\ h.messages[1].sender = "user"
                     /\ h.messages[1].text = req[r].message
                     /\ h.messages[2].sender = "ai"
                     /\ h.messages[2].text = resp'[r].reply
      ]_vars

\* a new conversation was answered and both its rows carry one timestamp
C1_Witness ==
    \E r \in Reqs :
        /\ pc[r] = "done" /\ req[r].sessionId = NoSessionId /\ resp[r].status = 200
        /\ HasRow(messages, req[r].userMsgId) /\ HasRow(messages, req[r].aiMsgId)
        /\ RowById(messages, req[r].userMsgId).timestamp
             = RowById(messages, req[r].aiMsgId).timestamp

\* C2 as stated: a valid POST /message on an existing conversation whose
\* provider call succeeds leaves the history exactly two messages longer
\* than the request found it and the updated-timestamp strictly greater.
C2_Original ==
    [][\A r \in Reqs :
        (Resumes(r) /\ req[r].conversation # Null /\ ReplyGenerated(req'[r]))
           => LET c == req[r].conversationId
              IN  /\ Len(RowsOf(messages', c)) = (Len(req[r].history) - 1) + 2
                  /\ conversations'[c].updatedAt > req[r].conversation[1].updatedAt
      ]_vars

\* C2 amended: such a request appends exactly two rows to the conversation,
\* its user message on arrival and its ai message when the reply is ready,
\* creates no conversation, and leaves the updated-timestamp at the
\* timestamp of the ai row, which is not below the value the request found
\* (and above it when the clock has moved past that value).
C2_ExistingConversationTurn ==
    [][\A r \in Reqs :
        /\ (Arrives(r) /\ req'[r].conversation # Null)
              => LET c == req'[r].sessionId
                 IN  /\ req'[r].conversationId = c
                     /\ DOMAIN conversations' = DOMAIN conversations
                     /\ Len(messages') = Len(messages) + 1
                     /\ SubSeq(messages', 1, Len(messages)) = messages
                     /\ LET m == messages'[Len(messages')]
                        IN  /\ m.conversationId = c /\ m.sender = "user"
                            /\ m.text = req'[r].message
                            /\ m.id = req'[r].userMsgId
                     /\ req'[r].conversation[1] = conversations[c]
        /\ (Resumes(r) /\ req[r].conversation # Null /\ ReplyGenerated(req'[r]))
              => LET c == req[r].conversationId
                     before == req[r].conversation[1].updatedAt
                 IN  /\ resp'[r].status = 200 /\ resp'[r].sessionId = c
                     /\ DOMAIN conversations' = DOMAIN conversations
                     /\ Len(messages') = Len(messages) + 1
                     /\ SubSeq(messages', 1, Len(messages)) = messages
                     /\ LET m == messages'[Len(messages')]
                        IN  /\ m.conversationId = c /\ m.sender = "ai"
                            /\ m.text = resp'[r].reply
                            /\ conversations'[c].updatedAt = m.timestamp
                     /\ conversations'[c].updatedAt >= before
                     /\ (now > before => conversations'[c].updatedAt > before)
      ]_vars

\* a request on an existing conversation was answered within the second of
\* the conversation's previous update
C2_Witness ==
    \E r \in Reqs :
        /\ pc[r] = "done" /\ resp[r].status = 200 /\ req[r].conversation # Null
        /\ conversations[req[r].conversationId].updatedAt
             = req[r].conversation[1].updatedAt

\* C3 as stated: of two requests that each create a conversation, the
\* second arriving after the first was answered, with texts equal after
\* lowercasing and trimming and the cache available, the second is answered
\* from the cache without a backend call.
C3_Original ==
    \A r1, r2 \in Reqs :
        ( /\ r1 # r2
          /\ resp[r1].status = 200 /\ resp[r2].status = 200
          /\ req[r1].created /\ req[r2].created
          /\ trim(toLowerCase(req[r1].message)) = trim(toLowerCase(req[r2].message))
          /\ req[r1].aiMsgId < req[r2].userMsgId
          /\ redisClient # NoClient )
        => calls[r2] = <<>>

\* C4 as stated: the history handed to the backend method leaves out the
\* row the request has just appended, so the prompt carries the current
\* user message once, as its last entry only.
C4_Original ==
    \A r \in Reqs :
        calls[r] # <<>>
          => /\ \A i \in 1..Len(req[r].history) : req[r].history[i].id # req[r].userMsgId
             /\ Len(calls[r]) = 1 + (Len(req[r].history) - 1) + 1

\* C5 as stated: a POST /message whose text is empty after trimming or
\* longer than 5000 characters is answered 400 and has no effect: no
\* conversation, no message, no cache access, no backend call.
C5_Original ==
    [][\A r \in Reqs :
        ( /\ pc[r] = "idle" /\ pc'[r] # "idle"
          /\ \/ strlen(trim(req'[r].message)) = 0
             \/ strlen(req'[r].message) > MaxMessageLen )
        => /\ pc'[r] = "done"
           /\ resp'[r].status = 400
           /\ conversations' = conversations
           /\ messages' = messages
           /\ cache' = cache
           /\ calls'[r] = <<>>
           /\ req'[r].cacheGets = 0
      ]_vars

\* the words of the rate-limit error after the provider's name
RateLimitText == " rate limit exceeded. Please wait a moment and try again."

\* C6: when the provider call of a POST /message fails, the user's message
\* stays in the conversation, the request appends no ai message and is
\* answered 500; for status 429 the error names the provider and says the
\* rate limit was exceeded.
C6_ProviderFailure ==
    [][\A r \in Reqs :
        (Resumes(r) /\ req'[r].backend = "failed")
        => /\ resp'[r].status = 500
           /\ resp'[r].reply = <<>>
           /\ messages' = messages
           /\ conversations' = conversations
           /\ req'[r].aiMsgId = 0
           /\ HasRow(messages', req[r].userMsgId)
           /\ LET m == RowById(messages', req[r].userMsgId)
              IN  /\ m.sender = "user" /\ m.text = req[r].message
                  /\ m.conversationId = req[r].conversationId
           /\ req'[r].outcome.error.status = 429
                => /\ ProviderName(provider) \in Range(resp'[r].error)
                   /\ RateLimitText \in Range(resp'[r].error)
      ]_vars

\* a request was answered after its backend call failed with status 429
C6_Witness ==
    \E r \in Reqs :
        /\ pc[r] = "done" /\ req[r].backend = "failed"
        /\ req[r].outcome.error.status = 429
        /\ resp[r].status = 500
        /\ HasRow(messages, req[r].userMsgId)

\* C7: a POST /message with a sessionId that resolves to no conversation
\* does what the same request without sessionId does: it creates a
\* conversation, stores the turn there and is answered with the new id.
C7_UnknownSessionIdAsNone ==
    [][\A r \in Reqs :
        /\ (pc[r] = "idle" /\ pc'[r] # "idle" /\ req'[r].sessionId = UnknownUuid)
              => LET ref == postMessage(conversations, messages, redisClient, cache, now,
                                        req'[r].message, NoSessionId, req'[r].fault, TRUE)
                 IN  /\ pc'[r] = ref.pc
                     /\ conversations' = ref.conversations
                     /\ messages' = ref.messages
                     /\ calls'[r] = ref.call
                     /\ resp'[r] = ref.resp
                     /\ req'[r] = [ref.req EXCEPT !.sessionId = UnknownUuid]
        /\ (Arrives(r) /\ req'[r].sessionId = UnknownUuid)
              => /\ req'[r].created
                 /\ req'[r].conversationId \notin DOMAIN conversations
                 /\ req'[r].conversationId \in DOMAIN conversations'
                 /\ req'[r].conversationId # UnknownUuid
                 /\ HasRow(messages', req'[r].userMsgId)
                 /\ RowById(messages', req'[r].userMsgId).conversationId
                      = req'[r].conversationId
        /\ (Resumes(r) /\ req[r].sessionId = UnknownUuid /\ ReplyGenerated(req'[r]))
              => /\ resp'[r].status = 200
                 /\ resp'[r].sessionId = req[r].conversationId
                 /\ resp'[r].sessionId # UnknownUuid
      ]_vars

\* a request with an unknown sessionId was answered with a new id
C7_Witness ==
    \E r \in Reqs :
        /\ pc[r] = "done" /\ req[r].sessionId = UnknownUuid
        /\ resp[r].status = 200 /\ req[r].created
        /\ resp[r].sessionId \in DOMAIN conversations

\* C8: a request on a conversation that already had a message neither
\* reads nor writes the response cache, whatever the cache holds under the
\* key of its text.
C8_NoCacheAfterFirstTurn ==
    [][\A r \in Reqs :
        ((Arrives(r) \/ Resumes(r)) /\ Len(req'[r].history) >= 2)
        => /\ cache' = cache
           /\ req'[r].cacheGets = 0
           /\ req'[r].cacheSets = 0
           /\ req'[r].cached = Null
      ]_vars

\* a request on a conversation with earlier messages was answered while the
\* cache held an entry under the key of its text
C8_Witness ==
    \E r \in Reqs :
        /\ pc[r] = "done" /\ resp[r].status = 200
        /\ Len(req[r].history) >= 2
        /\ getCacheKey(req[r].message) \in DOMAIN cache

\* C9 as stated: appending a message is atomic: a step that makes a new
\* row visible also sets the conversation's updated-timestamp to the row's
\* timestamp, and a request that the store failed leaves no row behind.
C9_Original ==
    [][/\ messages' # messages
          => LET m == messages'[Len(messages')]
             IN  conversations'[m.conversationId].updatedAt = m.timestamp
       /\ \A r \in Reqs :
             (pc[r] # "done" /\ pc'[r] = "done" /\ resp'[r].error = <<"SqliteError">>)
                => messages' = messages
      ]_vars

\* C10: GET history answers 404 exactly when the id resolves to no
\* conversation; for an existing conversation it answers 200 with all the
\* rows of the conversation in timestamp order, the empty list when the
\* conversation has no message.
C10_HistoryStatus ==
    [][lastGet' # lastGet
        => LET g == lastGet'
               rows == RowsOf(messages, g.id)
           IN  /\ g.status \in {200, 404}
               /\ g.status = 404 <=> g.id \notin DOMAIN conversations
               /\ g.status = 404 => g.error = <<"Conversation not found">>
               /\ g.status = 200
                    => /\ Len(g.messages) = Len(rows)
                       /\ Range(g.messages) = Range(rows)
                       /\ \A i, j \in 1..Len(g.messages) :
                             i < j => g.messages[i].timestamp <= g.messages[j].timestamp
      ]_vars

\* the history of a conversation without messages was read
C10_Witness ==
    /\ lastGet.status = 200
    /\ lastGet.messages = <<>>
    /\ lastGet.id \in DOMAIN conversations

\* C11 as stated: the updated-timestamp of every conversation is at least
\* its created-timestamp and at least the timestamp of each of its messages.
C11_Original ==
    \A c \in DOMAIN conversations :
        /\ conversations[c].updatedAt >= conversations[c].createdAt
        /\ \A i \in 1..Len(messages) :
              messages[i].conversationId = c
                 => conversations[c].updatedAt >= messages[i].timestamp

\* C12: every stored message carries the id of a conversation of the table
\* (ids are the primary key, so of exactly one), and addMessage called with
\* an id of no conversation fails with "Conversation not found" and leaves
\* both tables as they were.
C12_MessagesReferToConversation ==
    [][/\ \A i \in 1..Len(messages') :
             messages'[i].conversationId \in DOMAIN conversations'
       /\ (lastCall'.op = "addMessage"
              /\ lastCall'.conversationId \notin DOMAIN conversations)
           => /\ ~lastCall'.ok
              /\ lastCall'.error = <<"Conversation not found">>
              /\ messages' = messages
              /\ conversations' = conversations
      ]_vars

\* addMessage was called with an id of no conversation while the tables
\* held a conversation with a message
C12_Witness ==
    /\ lastCall.op = "addMessage"
    /\ lastCall.conversationId \notin DOMAIN conversations
    /\ ~lastCall.ok
    /\ messages # <<>>

\* the number of rows of the given sender among the first n of a history
CountSender(h, n, sender) == Cardinality({i \in 1..n : h[i].sender = sender})

\* C13 as stated: the messages of every conversation, in stored order,
\* alternate user, ai, user, ai, starting with a user message.
C13_Original ==
    \A c \in DOMAIN conversations :
        LET h == getMessages(messages, c)
        IN  \A i \in 1..Len(h) : h[i].sender = (IF i % 2 = 1 THEN "user" ELSE "ai")

\* C13 amended: the messages of every conversation, in stored order, start
\* with a user message and hold, in every prefix, at least as many user
\* messages as ai messages: every reply follows the user message it
\* answers, while user messages may be adjacent.
C13_RepliesFollowUserMessages ==
    \A c \in DOMAIN conversations :
        LET h == getMessages(messages, c)
        IN  /\ h # <<>> => h[1].sender = "user"
            /\ \A n \in 1..Len(h) : CountSender(h, n, "ai") <= CountSender(h, n, "user")

\* a conversation holds two adjacent user messages and a later reply
C13_Witness ==
    \E c \in DOMAIN conversations :
        LET h == getMessages(messages, c)
        IN  \E i \in 1..Len(h) :
               /\ i + 2 <= Len(h)
               /\ h[i].sender = "user" /\ h[i + 1].sender = "user"
               /\ \E j \in (i + 2)..Len(h) : h[j].sender = "ai"

\* the kind of a normalized error, read off the words of its message
ErrorKind(message) ==
    IF message = <<>> THEN "none"
    ELSE IF message[1] = "Invalid " /\ " API key. Please check your API key." \in Range(message)
    THEN "InvalidCredential"
    ELSE IF " rate limit exceeded. Please wait a moment and try again." \in Range(message)
    THEN "RateLimited"
    ELSE IF " service temporarily unavailable. Please try again in a moment." \in Range(message)
    THEN "BackendUnavailable"
    ELSE IF message[1] = "Request to " /\ " timed out. Please try again." \in Range(message)
    THEN "Timeout"
    ELSE IF message[1] = "Failed to generate reply with "
    THEN "UnknownBackendError"
    ELSE "other"

\* the error met the timeout test of handleError
IsTimeout(error) == error.code = "ECONNABORTED" \/ "timeout" \in Range(error.message)

\* C14: a request whose backend call fails is answered with the error
\* normalized by kind, for every provider: status 401 invalid credential,
\* 429 rate limited, 503 backend unavailable, otherwise a timeout (by code
\* or by message) the timeout error, otherwise the residual error with the
\* original message; each names the provider, and a status decides before
\* the timeout test.
C14_ErrorNormalization ==
    [][\A r \in Reqs :
        (Resumes(r) /\ req'[r].backend = "failed")
        => LET e == req'[r].outcome.error
               st == errorStatus(e)
               kind == ErrorKind(resp'[r].error)
           IN  /\ resp'[r].status = 500
               /\ ProviderName(provider) \in Range(resp'[r].error)
               /\ \A p \in Providers :
                     p # provider => ProviderName(p) \notin Range(resp'[r].error)
               /\ st = 401 => kind = "InvalidCredential"
               /\ st = 429 => kind = "RateLimited"
               /\ st = 503 => kind = "BackendUnavailable"
               /\ (st \notin {401, 429, 503} /\ IsTimeout(e)) => kind = "Timeout"
               /\ (st \notin {401, 429, 503} /\ ~IsTimeout(e))
                    => /\ kind = "UnknownBackendError"
                       /\ SubSeq(resp'[r].error, 4, Len(resp'[r].error))
                            = (IF e.message = <<>> THEN <<"Unknown error">> ELSE e.message)
      ]_vars

\* a request was answered after a failure that carries status 429 and a
\* message speaking of a timeout
C14_Witness ==
    \E r \in Reqs :
        /\ pc[r] = "done" /\ req[r].backend = "failed"
        /\ errorStatus(req[r].outcome.error) = 429
        /\ IsTimeout(req[r].outcome.error)
        /\ ErrorKind(resp[r].error) = "RateLimited"

\* the backend answered without usable text
EmptyReply(rq) ==
    /\ rq.backend = "ok"
    /\ rq.outcome.content = Null \/ trim(rq.outcome.content[1]) = <<>>

NormalizedKinds ==
    {"InvalidCredential", "RateLimited", "BackendUnavailable", "Timeout",
     "UnknownBackendError"}

\* C15 as stated: when the backend returns no usable text (none, empty or
\* whitespace only) the request fails with the empty-response error, which
\* is none of the normalized backend-failure kinds, stores no ai message
\* and writes nothing to the cache.
C15_Original ==
    [][\A r \in Reqs :
        (Resumes(r) /\ EmptyReply(req'[r]))
        => /\ resp'[r].status = 500
           /\ "Empty response from " \in Range(resp'[r].error)
           /\ ErrorKind(resp'[r].error) \notin NormalizedKinds
           /\ messages' = messages
           /\ cache' = cache
      ]_vars

\* the prefix the setup guide gives for a provider's keys (none for Gemini)
KeyPrefix(p) ==
    CASE p = "groq" -> Some("gsk_")
      [] p = "gemini" -> Null
      [] OTHER -> Some("sk-")

\* the environment variable that holds a provider's credential
KeyVariable(p) ==
    CASE p = "groq" -> "GROQ_API_KEY"
      [] p = "gemini" -> "GEMINI_API_KEY"
      [] OTHER -> "OPENAI_API_KEY"

\* the credential is absent, blank, the placeholder or lacks the prefix
KeyUnusable(p, key) ==
    \/ key = <<>>
    \/ isBlank(key)
    \/ key = placeholderKey(p)
    \/ KeyPrefix(p) # Null /\ ~startsWith(key, KeyPrefix(p)[1])

\* C16 as stated: for each provider, a request that needs a reply while
\* the credential is absent, blank, the placeholder or without the expected
\* prefix is answered at once with the configuration error, which names
\* the credential and where to get one; the backend is not called and the
\* error is not a normalized backend error.
C16_Original ==
    [][\A r \in Reqs :
        (pc[r] = "idle" /\ pc'[r] # "idle" /\ KeyUnusable(provider, apiKey))
        => /\ pc'[r] = "done"
           /\ calls'[r] = <<>>
           /\ resp'[r].status = 500
           /\ resp'[r].error = apiKeyError(provider)
           /\ KeyVariable(provider) \in Range(resp'[r].error)
           /\ ErrorKind(resp'[r].error) \notin NormalizedKinds
      ]_vars

\* C17: get and set of the cache service never throw: with Redis not
\* configured, unreachable for the connect or failing the command, get
\* returns null and set changes nothing; and every POST /message gets the
\* response and leaves the tables it would with Redis not reachable at all.
C17_CacheFailureAbsorbed ==
    [][/\ lastCall'.op \in {"cacheGet", "cacheSet"} => lastCall'.ok
       /\ (lastCall' # lastCall /\ lastCall'.op = "cacheGet"
              /\ (lastCall'.client = NoClient \/ ~lastCall'.redisOk))
           => lastCall'.value = Null
       /\ (lastCall' # lastCall /\ lastCall'.op = "cacheSet"
              /\ (lastCall'.client = NoClient \/ ~lastCall'.redisOk))
           => cache' = cache
       /\ \A r \in Reqs :
             /\ (pc[r] = "idle" /\ pc'[r] # "idle")
                   => LET ref == postMessage(conversations, messages, NoClient, EmptyCache,
                                             now, req'[r].message, req'[r].sessionId,
                                             req'[r].fault, FALSE)
                      IN  /\ pc'[r] = ref.pc
                          /\ resp'[r] = ref.resp
                          /\ calls'[r] = ref.call
                          /\ conversations' = ref.conversations
                          /\ messages' = ref.messages
             /\ Resumes(r)
                   => LET ref == postMessageResume(conversations, messages, NoClient,
                                                   EmptyCache, now, req[r], req'[r].outcome,
                                                   req'[r].fault, FALSE)
                      IN  /\ resp'[r] = ref.resp
                          /\ conversations' = ref.conversations
                          /\ messages' = ref.messages
      ]_vars

\* a get on a connected client failed on the command while the server held
\* an entry under the key, and a request was answered 200
C17_Witness ==
    /\ lastCall.op = "cacheGet"
    /\ ~lastCall.redisOk
    /\ lastCall.client # NoClient
    /\ getCacheKey(lastCall.message) \in DOMAIN cache
    /\ lastCall.value = Null
    /\ \E r \in Reqs : pc[r] = "done" /\ resp[r].status = 200

\* the store fails a statement of request r in this step
StoreFails(r) ==
    \/ /\ pc[r] = "idle" /\ pc'[r] # "idle"
       /\ schemaValid(req'[r].message, req'[r].sessionId)
       /\ \/ req'[r].fault \in {"insert", "update"}
          \/ /\ req'[r].fault = "create"
             /\ needsNewConversation(conversations, req'[r].sessionId)
    \/ /\ Resumes(r)
       /\ req'[r].fault \in {"insert", "update"}
       /\ req'[r].backend = "ok" /\ ~EmptyReply(req'[r])

\* C18: no retries.  A request calls the backend at most once, on arrival,
\* and looks the cache up at most once; when its backend call or a store
\* statement fails, that step answers the request 500 with the failure's
\* message and calls no backend again; an answered request stays answered
\* with the same response.
C18_NoRetries ==
    [][\A r \in Reqs :
        /\ pc[r] # "idle" => calls'[r] = calls[r]
        /\ req'[r].cacheGets <= 1
        /\ pc[r] = "done" => (pc'[r] = "done" /\ resp'[r] = resp[r] /\ req'[r] = req[r])
        /\ (Resumes(r) /\ req'[r].backend = "failed")
              => /\ resp'[r].status = 500
                 /\ resp'[r].error = handleError(req'[r].outcome.error, ProviderName(provider))
                 /\ resp'[r].error # <<>>
                 /\ calls' = calls
        /\ StoreFails(r)
              => /\ pc'[r] = "done"
                 /\ resp'[r].status = 500
                 /\ resp'[r].error = <<"SqliteError">>
                 /\ calls' = calls
      ]_vars

\* one request was answered after its backend call failed, another after a
\* store statement failed
C18_Witness ==
    \E r1, r2 \in Reqs :
        /\ pc[r1] = "done" /\ req[r1].backend = "failed" /\ resp[r1].status = 500
        /\ calls[r1] # <<>>
        /\ pc[r2] = "done" /\ resp[r2].error = <<"SqliteError">>

\* the payload of a request is invalid: no JSON, no message string, an
\* empty or over-long message, a sessionId that is not a UUID
PayloadInvalid(rq) ==
    \/ rq.body \in BadBodies
    \/ strlen(rq.message) = 0
    \/ strlen(rq.message) > MaxMessageLen
    \/ rq.sessionId = NotAUuid

\* C19 as stated: a request that is not answered 200 gets a body with a
\* non-empty error, with status 400 exactly when its payload is invalid
\* and status 500 otherwise (a store or provider step failed).
C19_Original ==
    [][\A r \in Reqs :
        (pc[r] # "done" /\ pc'[r] = "done" /\ resp'[r].status # 200)
        => /\ resp'[r].error # <<>>
           /\ resp'[r].status = (IF PayloadInvalid(req'[r]) THEN 400 ELSE 500)
      ]_vars

\* C20 as stated: once the widget has handled a response, the sessionId it
\* keeps in state and in localStorage is the sessionId of the latest
\* successful response, also when the server answered with another id than
\* the one sent; a reload then loads the history of the conversation that
\* holds the messages sent.
C20_Original ==
    (widget.sending = 0 /\ widget.lastOk # Null)
    => /\ widget.sessionId = widget.lastOk
       /\ widget.stored = widget.lastOk
       /\ historyResponse(conversations, messages, widget.stored[1]).status = 200

\* a direct generateReply call of slot r starts in this step
GenerateStarts(r) ==
    pc[r] = "idle" /\ pc'[r] # "idle" /\ req'[r].body = "generateReply"

\* the lookup of the generateReply call of slot r is answered in this step
GenerateLooksUp(r) == pc[r] = "awaitCacheGet" /\ pc'[r] # "awaitCacheGet"

\* the backend call of the generateReply call of slot r settles in this step
GenerateSettles(r) == pc[r] = "awaitGenerate" /\ pc'[r] # "awaitGenerate"

\* the write of the generateReply call of slot r is answered in this step
GenerateWrites(r) == pc[r] = "awaitCacheSet" /\ pc'[r] # "awaitCacheSet"

\* the cache holds a usable entry for the message
Cached(store, userMessage, t) ==
    LET key == <<"chat:", sha256(trim(toLowerCase(userMessage)))>>
    IN  key \in DOMAIN store /\ t < store[key].expiresAt /\ store[key].value # <<>>

\* C21: generateReply with an empty history asks the cache before anything
\* else; on a cache hit it returns the cached text, calls no backend and
\* writes nothing; on a miss it calls the backend once; when the backend
\* succeeds the reply is then written under the key of the message with a
\* time to live of 3600 seconds and returned; when it fails nothing is
\* written.  The cache changes in no other step.
C21_FirstTurnCacheProtocol ==
    [][/\ \A r \in Reqs :
          /\ (GenerateStarts(r) /\ req'[r].history = <<>>)
                => /\ pc'[r] = "awaitCacheGet"
                   /\ calls'[r] = <<>>
          /\ GenerateLooksUp(r)
                => LET key == <<"chat:", sha256(trim(toLowerCase(req[r].message)))>>
                   IN  /\ Cached(cache, req[r].message, now)
                             => /\ pc'[r] = "done"
                                /\ calls'[r] = <<>>
                                /\ lastCall'.ok
                                /\ lastCall'.value = Some(cache[key].value)
                       /\ ~Cached(cache, req[r].message, now)
                             => /\ pc'[r] = "awaitGenerate"
                                /\ calls'[r] # <<>>
          /\ (GenerateSettles(r) /\ req[r].history = <<>>)
                => /\ calls'[r] = calls[r]
                   /\ (req'[r].backend = "failed" \/ EmptyReply(req'[r]))
                         => (pc'[r] = "done" /\ ~lastCall'.ok)
                   /\ (req'[r].backend = "ok" /\ ~EmptyReply(req'[r]))
                         => pc'[r] = "awaitCacheSet"
          /\ GenerateWrites(r)
                => LET key == <<"chat:", sha256(trim(toLowerCase(req[r].message)))>>
                   IN  /\ req[r].backend = "ok"
                       /\ calls'[r] = calls[r]
                       /\ pc'[r] = "done"
                       /\ lastCall'.ok
                       /\ key \in DOMAIN cache'
                       /\ Some(cache'[key].value) = lastCall'.value
                       /\ cache'[key].expiresAt = now + 3600
                       /\ \A k \in DOMAIN cache' \ {key} :
                             k \in DOMAIN cache /\ cache'[k] = cache[k]
       /\ cache' # cache => \E r \in Reqs : GenerateWrites(r)
      ]_vars

\* one call missed, got a reply and wrote it; a later call with an empty
\* history was answered from the cache
C21_Witness ==
    \E r1, r2 \in Reqs :
        /\ r1 # r2
        /\ pc[r1] = "done" /\ req[r1].body = "generateReply" /\ req[r1].cacheSets = 1
        /\ calls[r1] # <<>>
        /\ pc[r2] = "done" /\ req[r2].body = "generateReply" /\ req[r2].history = <<>>
        /\ cacheHit(req[r2].cached) /\ calls[r2] = <<>>

\* the role a provider's prompt gives to a sender
RoleOf(p, sender) ==
    IF p = "gemini" THEN (IF sender = "user" THEN "Customer" ELSE "Agent")
    ELSE (IF sender = "user" THEN "user" ELSE "assistant")

\* C22: the prompt sent to the backend is the system instruction, then the
\* last 10 messages of the given history (all of it when shorter) in their
\* order, user messages in the user role and ai messages in the assistant
\* (Gemini: Agent) role, then the new user message; for every provider.
C22_PromptHistory ==
    \A r \in Reqs :
        calls[r] # <<>>
        => LET h == req[r].history
               n == Len(h)
               k == IF n <= 10 THEN n ELSE 10
               prompt == calls[r]
           IN  /\ Len(prompt) = k + 2
               /\ prompt[1] = PromptEntry("system", STORE_KNOWLEDGE)
               /\ prompt[k + 2] = PromptEntry(RoleOf(provider, "user"), req[r].message)
               /\ \A i \in 1..k :
                     /\ prompt[1 + i].content = h[n - k + i].text
                     /\ prompt[1 + i].role = RoleOf(provider, h[n - k + i].sender)

\* a prompt was built from a history of 12 messages
C22_Witness ==
    \E r \in Reqs :
        /\ calls[r] # <<>>
        /\ Len(req[r].history) = 12
        /\ Len(calls[r]) = 12

\* the normal form of a message: its leading and trailing spaces removed,
\* then its letters lowercased
NormalForm(m) == toLowerCase(trim(m))

\* C23: two messages get the same cache key exactly when they are equal
\* after lowercasing and trimming; a value set for a message is what get
\* returns for every message of the same normal form, and for no other,
\* until the entry expires, after which get returns null.
C23_CacheKeyNormalForm ==
    [][/\ \A m1, m2 \in KeyMessages :
             (getCacheKey(m1) = getCacheKey(m2)) <=> (NormalForm(m1) = NormalForm(m2))
       /\ (lastCall' # lastCall /\ lastCall'.op = "cacheSet")
           => \A m \in KeyMessages :
                 LET after == cacheGet(redisClient', cache', m, now, TRUE).value
                     before == cacheGet(redisClient, cache, m, now, TRUE).value
                 IN  IF NormalForm(m) = NormalForm(lastCall'.message)
                     THEN after = lastCall'.value
                     ELSE after = before
       /\ (lastCall' # lastCall /\ lastCall'.op = "cacheGet")
           => /\ \A m \in KeyMessages :
                    NormalForm(m) = NormalForm(lastCall'.message)
                       => lastCall'.value = cacheGet(redisClient, cache, m, now, TRUE).value
              /\ \A k \in DOMAIN cache :
                    (k = getCacheKey(lastCall'.message) /\ now >= cache[k].expiresAt)
                       => lastCall'.value = Null
              /\ cache' = cache
      ]_vars

\* get for "R" returned the value stored under the key of "r"; later the
\* entry of another store had expired and get returned null
C23_Witness ==
    /\ lastCall.op = "cacheGet"
    /\ lastCall.message = <<Run(" ", 1), Run("R", 1)>>
    /\ \/ lastCall.value = Some(<<Run("c", 1)>>)
       \/ /\ lastCall.value = Null
          /\ getCacheKey(lastCall.message) \in DOMAIN cache
          /\ now >= cache[getCacheKey(lastCall.message)].expiresAt

\* C24: a POST /message whose sessionId resolves to an existing
\* conversation creates no conversation and leaves the rows, the messages
\* and the timestamps of every other conversation as they were, and its
\* successful response carries the supplied sessionId; a request creates a
\* conversation only when it has no sessionId or one that does not resolve.
C24_ResolvedSessionFrame ==
    [][\A r \in Reqs :
          (pc[r] # "done" /\ pc'[r] # pc[r]) =>
             LET supplied == req'[r].sessionId
                 resolves == supplied # NoSessionId /\ supplied \in DOMAIN conversations
             IN  /\ resolves =>
                       /\ DOMAIN conversations' = DOMAIN conversations
                       /\ \A c \in DOMAIN conversations \ {supplied} :
                             /\ conversations'[c] = conversations[c]
                             /\ RowsOf(messages', c) = RowsOf(messages, c)
                       /\ (pc'[r] = "done" /\ resp'[r].status = 200)
                             => resp'[r].sessionId = supplied
                 /\ DOMAIN conversations' # DOMAIN conversations
                       => /\ ~resolves
                          /\ Cardinality(DOMAIN conversations') =
                                Cardinality(DOMAIN conversations) + 1
      ]_vars

\* a request on conversation 1 was answered at second 1 while conversation 2,
\* created at second 0 by the other request, kept its timestamps
C24_Witness ==
    \E r \in Reqs :
        /\ pc[r] = "done"
        /\ resp[r].status = 200
        /\ req[r].sessionId = 1
        /\ resp[r].sessionId = 1
        /\ DOMAIN conversations = {1, 2}
        /\ conversations[1].updatedAt = 1
        /\ conversations[2].updatedAt = 0
        /\ RowsOf(messages, 2) # <<>>

\* the requests that stored their user message in conversation c
RequestsOn(c) ==
    {r \in Reqs : pc[r] # "idle" /\ req[r].conversationId = c /\ req[r].userMsgId # 0}

\* C25: requests on one conversation, in any interleaving, lose and
\* duplicate no message: the conversation holds one user message more for
\* every request that reached the backend call and one agent message more
\* for every request answered with success, so n user and n agent messages
\* more after n successful requests, and every successful response carries
\* the text of the agent message of its own request, a row of no other.
C25_NoLostMessage ==
    \A c \in DOMAIN conversations :
        LET h == RowsOf(messages, c)
            before == RowsOf(OneTurnDb.messages, c)
            on == RequestsOn(c)
            answered == {r \in on : pc[r] = "done" /\ resp[r].status = 200}
        IN  /\ CountSender(h, Len(h), "user")
                  = CountSender(before, Len(before), "user") + Cardinality(on)
            /\ CountSender(h, Len(h), "ai")
                  = CountSender(before, Len(before), "ai") + Cardinality(answered)
            /\ \A r \in answered :
                  /\ Cardinality({i \in 1..Len(h) : h[i].id = req[r].aiMsgId}) = 1
                  /\ \A i \in 1..Len(h) :
                        h[i].id = req[r].aiMsgId
                           => /\ i > Len(before)
                              /\ h[i].sender = "ai"
                              /\ h[i].text = resp[r].reply
                  /\ \A q \in answered \ {r} : req[q].aiMsgId # req[r].aiMsgId

\* two requests on conversation 1 were in flight together and both were
\* answered: their user messages precede both agent messages
C25_Witness ==
    /\ \A r \in Reqs : pc[r] = "done" /\ resp[r].status = 200 /\ req[r].sessionId = 1
    /\ Cardinality(Reqs) >= 2
    /\ LET h == RowsOf(messages, 1)
       IN  /\ Len(h) = 2 + 2 * Cardinality(Reqs)
           /\ h[3].sender = "user" /\ h[4].sender = "user"
           /\ h[Len(h)].sender = "ai" /\ h[Len(h) - 1].sender = "ai"

\* C26 as stated: whatever the interleaving of the callers of
\* getRedisClient, at most one client is ever created and connected, and
\* every caller that got a client got that one.
C26_Original ==
    /\ connects.created <= 1
    /\ Cardinality(connects.connected) <= 1
    /\ \A k1, k2 \in Callers :
          (/\ connects.pc[k1] = "returned" /\ connects.result[k1] # NoClient
           /\ connects.pc[k2] = "returned" /\ connects.result[k2] # NoClient)
             => connects.result[k1] = connects.result[k2]

\* C27 as stated: every request that the serverless handler dispatches is
\* dispatched to an app on which the body parser, the chat routes, the
\* health route and the error handler are registered.
C27_Original ==
    \A r \in Reqs :
        adapter.dispatched[r] # Null => adapter.dispatched[r][1] = AppParts

\* C28 as stated: no conversation without messages is observable through
\* the HTTP API: a history read of an existing conversation returns at
\* least one message, and the first one is a user message.
C28_Original ==
    lastGet.status = 200
       => /\ lastGet.messages # <<>>
          /\ lastGet.messages[1].sender = "user"

\* senders and texts of a list of messages, in order
SendersAndTexts(list) ==
    [i \in 1..Len(list) |-> <<list[i].sender, list[i].text>>]

\* neither a POST /message nor the GET /history of the page is pending
NoRequestInFlight == widget.sending = 0 /\ widget.history.stage = "none"

\* the conversation a message of the widget's list belongs to: the one it
\* was loaded from, or the one that the response to its send names
ShownFrom(m) == IF m.via = 0 THEN widget.sessionId[1] ELSE resp[m.via].sessionId

\* C29 as stated: whenever the widget has no request in flight, the
\* messages it displays are, in sender and text, the stored history of the
\* widget's session.
C29_Original ==
    NoRequestInFlight
       => SendersAndTexts(widget.messages)
             = (IF widget.sessionId = Null THEN <<>>
                ELSE SendersAndTexts(getMessages(messages, widget.sessionId[1])))

\* C29, amended: whenever the widget has no request in flight, every
\* message it displays is stored on the server with the same sender and
\* text, in the conversation it was loaded from or that the response to its
\* send names; the server may hold messages the widget does not show.
C29_DisplayedAreStored ==
    NoRequestInFlight
       => \A i \in 1..Len(widget.messages) :
             LET m == widget.messages[i]
             IN  /\ ShownFrom(m) \in DOMAIN conversations
                 /\ \E row \in Range(getMessages(messages, ShownFrom(m))) :
                        row.sender = m.sender /\ row.text = m.text

\* after an answered send and a failed one the widget shows the first turn
\* and the server holds the user message of the failed send as well
C29_Witness ==
    /\ NoRequestInFlight
    /\ \E c \in DOMAIN conversations :
          /\ widget.sessionId = Some(c)
          /\ Len(widget.messages) >= 2
          /\ widget.messages[Len(widget.messages)].sender = "ai"
          /\ widget.messages[Len(widget.messages)].via # 0
          /\ Len(getMessages(messages, c)) = Len(widget.messages) + 1
          /\ getMessages(messages, c)[Len(widget.messages) + 1].sender = "user"

\* C30: a POST /message is answered 200 only in the step that appends its
\* agent message; the reply of the response is the text of that row, which
\* is the last row of the table, belongs to the conversation of the
\* response and is non-empty and free of leading and trailing whitespace.
C30_ReplyIsStoredText ==
    [][\A r \in Reqs :
          (pc[r] # "done" /\ pc'[r] = "done" /\ resp'[r].status = 200)
             => /\ Resumes(r)
                /\ Len(messages') = Len(messages) + 1
                /\ SubSeq(messages', 1, Len(messages)) = messages
                /\ LET row == messages'[Len(messages')]
                   IN  /\ row.id = req'[r].aiMsgId
                       /\ row.sender = "ai"
                       /\ row.conversationId = resp'[r].sessionId
                       /\ row.text = resp'[r].reply
                       /\ resp'[r].reply # <<>>
                       /\ trim(resp'[r].reply) = resp'[r].reply
      ]_vars

\* the backend answered " a" and the request was answered with "a", the
\* text of the agent message it stored
C30_Witness ==
    \E r \in Reqs :
        /\ pc[r] = "done"
        /\ resp[r].status = 200
        /\ req[r].outcome.content = Some(<<Run(" ", 1), Run("a", 1)>>)
        /\ resp[r].reply = <<Run("a", 1)>>
        /\ HasRow(messages, req[r].aiMsgId)
        /\ RowById(messages, req[r].aiMsgId).text = <<Run("a", 1)>>

====
